---- MODULE Spec2Model ----
(***************************************************************************)
(* Route map of the Starlite/Litestar rust extension.                      *)
(*                                                                         *)
(* Two revisions of the router live in the sources and both are modelled:  *)
(*   - the literal+placeholder-child trie with a plain-route table         *)
(*     (route_map/search.rs; specification Spec), and                      *)
(*   - the component-set trie (route_map/lib.rs, rust/src/route_map.rs;    *)
(*     specification SpecLegacy).                                          *)
(*                                                                         *)
(* A string is a sequence of characters.  The characters used are "/",     *)
(* " ", "{", "}", "*" and a few letters; a parameter's full token such as  *)
(* "id:str" is written as the single character "id".                       *)
(***************************************************************************)
EXTENDS Integers, Sequences, FiniteSets, TLC

VARIABLES
    root,           \* search.rs trie: node key -> Node
    plain_routes,   \* search.rs: path -> HandlerGroup
    static_paths,   \* set of static paths (both revisions)
    adds,           \* number of declarations made so far (bounded by MaxAdds)
    declared,       \* the declarations accepted so far, with is_static at the time
    map,            \* lib.rs trie of the component-set revision: node key -> Node
    plain_route_set,\* lib.rs plain_routes: the set of plain-route paths
    phase,          \* "build" while routes are added, "serve" once a lookup is made
    last,           \* outcome of the most recent call
    calls,          \* the resolve calls in flight, one record per caller
    stack,          \* the work list of drop: nodes taken out of their parent
    owned,          \* the nodes still held in the children of their parent
    released        \* the nodes that have been released

vars == <<root, plain_routes, static_paths, adds, declared, map, plain_route_set,
          phase, last, calls, stack, owned, released>>

(***************************************************************************)
(* Bounds                                                                  *)
(***************************************************************************)
\* declarations made over a run
MaxAdds == 3
\* routes handed to one add_routes call
MaxBatch == 2
\* characters of a path handed to the normalization
MaxLen == 4
\* callers that run resolve_asgi_app at the same time
NumCallers == 2
\* literal segments below the placeholder of the deep route
MaxDepth == 3

(***************************************************************************)
(* Strings                                                                 *)
(***************************************************************************)
IsPrefix(p, s) == Len(p) <= Len(s) /\ SubSeq(s, 1, Len(p)) = p

\* str::replace: every non-overlapping match of pat, left to right
RECURSIVE replace(_, _, _)
replace(s, pat, to) ==
    IF s = <<>> THEN <<>>
    ELSE IF IsPrefix(pat, s)
         THEN to \o replace(SubSeq(s, Len(pat) + 1, Len(s)), pat, to)
         ELSE <<Head(s)>> \o replace(Tail(s), pat, to)

\* str::split('/'): the pieces between separators, empty pieces included
RECURSIVE split(_, _)
split(s, cur) ==
    IF s = <<>> THEN <<cur>>
    ELSE IF Head(s) = "/" THEN <<cur>> \o split(Tail(s), <<>>)
         ELSE split(Tail(s), Append(cur, Head(s)))

\* a splitting that keeps the empty pieces
get_base_components_keep_empty(path) == <<<<"/">>>> \o split(path, <<>>)

\* util.rs 13-24
get_base_components(path) ==
    <<<<"/">>>> \o SelectSeq(split(path, <<>>), LAMBDA c : c # <<>>)

RECURSIVE trim_start(_)
trim_start(s) == IF s # <<>> /\ Head(s) = " " THEN trim_start(Tail(s)) ELSE s

RECURSIVE trim_end(_)
trim_end(s) ==
    IF s # <<>> /\ s[Len(s)] = " " THEN trim_end(SubSeq(s, 1, Len(s) - 1)) ELSE s

trim(s) == trim_end(trim_start(s))

RECURSIVE collapse(_)
collapse(s) ==
    IF Len(s) < 2 THEN s
    ELSE IF s[1] = "/" /\ s[2] = "/" THEN collapse(Tail(s))
         ELSE <<Head(s)>> \o collapse(Tail(s))

\* util::normalize_path (4.1): trim; empty gives "/"; collapse separator runs;
\* strip one trailing separator unless root; prepend a separator if missing
normalize_path(full_path) ==
    LET t == trim(full_path)
        c == collapse(t)
        s == IF c # <<"/">> /\ c # <<>> /\ c[Len(c)] = "/"
             THEN SubSeq(c, 1, Len(c) - 1) ELSE c
    IN  IF t = <<>> THEN <<"/">>
        ELSE IF s = <<>> \/ s[1] # "/" THEN <<"/">> \o s ELSE s

(***************************************************************************)
(* Handler groups (4.4) and route declarations (6)                         *)
(***************************************************************************)
EmptyMap == [k \in {} |-> "none"]

\* Option::None for a node's handler_group
NoGroup == [tag |-> "None", path |-> <<>>, path_parameters |-> <<>>,
            handler |-> "none", asgi_handlers |-> EmptyMap]

\* HandlerGroup::Static { path, handler }
Static(path, handler) ==
    [tag |-> "Static", path |-> path, path_parameters |-> <<>>,
     handler |-> handler, asgi_handlers |-> EmptyMap]

\* HandlerGroup::Asgi { path_parameters, handler }: the catch-all group
Asgi(path_parameters, handler) ==
    [tag |-> "Asgi", path |-> <<>>, path_parameters |-> path_parameters,
     handler |-> handler, asgi_handlers |-> EmptyMap]

\* HandlerGroup::NonAsgi { path_parameters, asgi_handlers }: the dispatch group
NonAsgi(path_parameters, asgi_handlers) ==
    [tag |-> "NonAsgi", path |-> <<>>, path_parameters |-> path_parameters,
     handler |-> "none", asgi_handlers |-> asgi_handlers]

\* HandlerGroup::static_path
static_path_of(group) == IF group.tag = "Static" THEN group.path ELSE <<>>

\* HandlerType of an HTTP method name
HandlerType(method) ==
    CASE method = "GET" -> "HttpGet"
      [] method = "POST" -> "HttpPost"
      [] method = "DELETE" -> "HttpDelete"
      [] OTHER -> "HttpOther"

\* the map a overwritten and extended by the entries of b
Overwrite(a, b) ==
    [k \in DOMAIN a \cup DOMAIN b |-> IF k \in DOMAIN b THEN b[k] ELSE a[k]]

\* a merge that lets a Static group take the place of any group and be replaced
merge_static_replaces(existing, new, path) ==
    IF existing.tag = "Static" \/ new.tag = "Static"
    THEN [ok |-> TRUE, group |-> new]
    ELSE IF existing.tag = "Asgi" /\ new.tag = "Asgi"
    THEN IF existing.path_parameters = new.path_parameters
         THEN [ok |-> TRUE, group |-> [existing EXCEPT !.handler = new.handler]]
         ELSE [ok |-> FALSE, group |-> existing]
    ELSE IF existing.tag = "NonAsgi" /\ new.tag = "NonAsgi"
    THEN IF existing.path_parameters = new.path_parameters
         THEN [ok |-> TRUE,
               group |-> [existing EXCEPT !.asgi_handlers =
                             Overwrite(existing.asgi_handlers, new.asgi_handlers)]]
         ELSE [ok |-> FALSE, group |-> existing]
    ELSE [ok |-> FALSE, group |-> existing]

\* HandlerGroup::merge (4.4): [ok, group]
merge(existing, new, path) ==
    IF existing.tag = "Static" /\ new.tag = "Static"
    THEN [ok |-> TRUE, group |-> existing]
    ELSE IF existing.tag = "Static" \/ new.tag = "Static"
    THEN [ok |-> FALSE, group |-> existing]
    ELSE IF existing.tag = "Asgi" /\ new.tag = "Asgi"
    THEN IF existing.path_parameters = new.path_parameters
         THEN [ok |-> TRUE, group |-> [existing EXCEPT !.handler = new.handler]]
         ELSE [ok |-> FALSE, group |-> existing]
    ELSE IF existing.tag = "NonAsgi" /\ new.tag = "NonAsgi"
    THEN IF existing.path_parameters = new.path_parameters
         THEN [ok |-> TRUE,
               group |-> [existing EXCEPT !.asgi_handlers =
                             Overwrite(existing.asgi_handlers, new.asgi_handlers)]]
         ELSE [ok |-> FALSE, group |-> existing]
    ELSE [ok |-> FALSE, group |-> existing]

(***************************************************************************)
(* The trie of search.rs.  A node is known by its key: the sequence of     *)
(* edge labels from the root.  The children of a node are the keys that    *)
(* extend its key by one literal label, its placeholder_child the key that *)
(* extends it by the placeholder label.                                    *)
(***************************************************************************)
Lit(s) == [placeholder |-> FALSE, segment |-> s]
PlaceholderLabel == [placeholder |-> TRUE, segment |-> <<>>]

\* Node::default
NodeDefault == [handler_group |-> NoGroup]

\* node.children.get(component)
has_child(rt, node, component) == Append(node, Lit(component)) \in DOMAIN rt
child(node, component) == Append(node, Lit(component))

\* node.placeholder_child
has_placeholder_child(rt, node) == Append(node, PlaceholderLabel) \in DOMAIN rt
placeholder_child(node) == Append(node, PlaceholderLabel)

\* util::param_set: the full tokens of the declared parameters
param_set(path_parameters_vec) ==
    {path_parameters_vec[i].full : i \in 1..Len(path_parameters_vec)}

\* search.rs 25-26
is_placeholder(s, pset) ==
    /\ s # <<>>
    /\ s[1] = "{"
    /\ s[Len(s)] = "}"
    /\ SubSeq(s, 2, Len(s) - 1) \in pset

\* an insertion walk that takes every component for a literal
insert_key_all_literal(path, pset) ==
    LET comps == get_base_components(path)
    IN  [i \in 1..Len(comps) |-> Lit(comps[i])]

\* search.rs 21-36: the key of the node the insertion walk ends at
insert_key(path, pset) ==
    LET comps == get_base_components(path)
    IN  [i \in 1..Len(comps) |->
            IF is_placeholder(comps[i], pset) THEN PlaceholderLabel ELSE Lit(comps[i])]

\* get_or_insert_with / or_insert_with along the walk: every prefix of key exists
with_nodes(rt, key) ==
    [k \in DOMAIN rt \cup {SubSeq(key, 1, i) : i \in 0..Len(key)} |->
        IF k \in DOMAIN rt THEN rt[k] ELSE NodeDefault]

\* an insertion that puts the new group in place of the one it finds
find_insert_handler_group_replace(rt, pr, path, path_parameters, is_static, handler_group) ==
    IF path_parameters # <<>> \/ is_static
    THEN LET key == insert_key(path, param_set(path_parameters))
         IN  [ok |-> TRUE, plain_routes |-> pr,
              root |-> [with_nodes(rt, key) EXCEPT ![key].handler_group = handler_group]]
    ELSE [ok |-> TRUE, root |-> rt,
          plain_routes |-> [k \in DOMAIN pr \cup {path} |->
                               IF k = path THEN handler_group ELSE pr[k]]]

\* an insertion that sends every declaration down the trie
find_insert_handler_group_always_trie(rt, pr, path, path_parameters, is_static, handler_group) ==
    LET key == insert_key(path, param_set(path_parameters))
        grown == with_nodes(rt, key)
        existing == grown[key].handler_group
        m == merge(existing, handler_group, path)
    IN  IF existing # NoGroup
        THEN IF m.ok
             THEN [ok |-> TRUE, plain_routes |-> pr,
                   root |-> [grown EXCEPT ![key].handler_group = m.group]]
             ELSE [ok |-> FALSE, plain_routes |-> pr, root |-> grown]
        ELSE [ok |-> TRUE, plain_routes |-> pr,
              root |-> [grown EXCEPT ![key].handler_group = handler_group]]

\* an insertion that walks to the node and leaves a node without a group as it is
find_insert_handler_group_walk_only(rt, pr, path, path_parameters, is_static, handler_group) ==
    IF path_parameters # <<>> \/ is_static
    THEN LET key == insert_key(path, param_set(path_parameters))
             grown == with_nodes(rt, key)
             existing == grown[key].handler_group
             m == merge(existing, handler_group, path)
         IN  IF existing # NoGroup
             THEN IF m.ok
                  THEN [ok |-> TRUE, plain_routes |-> pr,
                        root |-> [grown EXCEPT ![key].handler_group = m.group]]
                  ELSE [ok |-> FALSE, plain_routes |-> pr, root |-> grown]
             ELSE [ok |-> TRUE, plain_routes |-> pr, root |-> grown]
    ELSE IF path \in DOMAIN pr
         THEN LET m == merge(pr[path], handler_group, path)
              IN  IF m.ok
                  THEN [ok |-> TRUE, root |-> rt,
                        plain_routes |-> [pr EXCEPT ![path] = m.group]]
                  ELSE [ok |-> FALSE, root |-> rt, plain_routes |-> pr]
         ELSE [ok |-> TRUE, root |-> rt,
               plain_routes |-> [k \in DOMAIN pr \cup {path} |->
                                    IF k = path THEN handler_group ELSE pr[k]]]

\* search.rs 9-49: [ok, root, plain_routes]
find_insert_handler_group(rt, pr, path, path_parameters, is_static, handler_group) ==
    IF path_parameters # <<>> \/ is_static
    THEN LET key == insert_key(path, param_set(path_parameters))
             grown == with_nodes(rt, key)
             existing == grown[key].handler_group
             m == merge(existing, handler_group, path)
         IN  IF existing # NoGroup
             THEN IF m.ok
                  THEN [ok |-> TRUE, plain_routes |-> pr,
                        root |-> [grown EXCEPT ![key].handler_group = m.group]]
                  ELSE [ok |-> FALSE, plain_routes |-> pr, root |-> grown]
             ELSE [ok |-> TRUE, plain_routes |-> pr,
                   root |-> [grown EXCEPT ![key].handler_group = handler_group]]
    ELSE IF path \in DOMAIN pr
         THEN LET m == merge(pr[path], handler_group, path)
              IN  IF m.ok
                  THEN [ok |-> TRUE, root |-> rt,
                        plain_routes |-> [pr EXCEPT ![path] = m.group]]
                  ELSE [ok |-> FALSE, root |-> rt, plain_routes |-> pr]
         ELSE [ok |-> TRUE, root |-> rt,
               plain_routes |-> [k \in DOMAIN pr \cup {path} |->
                                    IF k = path THEN handler_group ELSE pr[k]]]

(***************************************************************************)
(* Lookup (search.rs 51-105)                                               *)
(***************************************************************************)
NoPath == [some |-> FALSE, path |-> <<>>]
SomePath(p) == [some |-> TRUE, path |-> p]

\* a loop iteration without the static branch
descend_no_static(rt, node, component) ==
    IF has_child(rt, node, component)
    THEN [took |-> "literal", node |-> child(node, component)]
    ELSE IF has_placeholder_child(rt, node)
    THEN [took |-> "placeholder", node |-> placeholder_child(node)]
    ELSE [took |-> "not_found", node |-> node]

\* a loop iteration that tries the placeholder child before the literal child
descend_placeholder_first(rt, node, component) ==
    IF has_placeholder_child(rt, node)
    THEN [took |-> "placeholder", node |-> placeholder_child(node)]
    ELSE IF has_child(rt, node, component)
    THEN [took |-> "literal", node |-> child(node, component)]
    ELSE IF rt[node].handler_group.tag = "Static"
    THEN [took |-> "static", node |-> node]
    ELSE [took |-> "not_found", node |-> node]

\* a loop iteration that stops at a Static group before it looks at the children
descend_static_first(rt, node, component) ==
    IF rt[node].handler_group.tag = "Static"
    THEN [took |-> "static", node |-> node]
    ELSE IF has_child(rt, node, component)
    THEN [took |-> "literal", node |-> child(node, component)]
    ELSE IF has_placeholder_child(rt, node)
    THEN [took |-> "placeholder", node |-> placeholder_child(node)]
    ELSE [took |-> "not_found", node |-> node]

\* search.rs 61-81: the branch one loop iteration takes at node
descend(rt, node, component) ==
    IF has_child(rt, node, component)
    THEN [took |-> "literal", node |-> child(node, component)]
    ELSE IF has_placeholder_child(rt, node)
    THEN [took |-> "placeholder", node |-> placeholder_child(node)]
    ELSE IF rt[node].handler_group.tag = "Static"
    THEN [took |-> "static", node |-> node]
    ELSE [took |-> "not_found", node |-> node]

\* search.rs 75-77
strip_static(path, static_path) ==
    IF static_path # <<"/">> THEN replace(path, static_path, <<>>) ELSE path

\* search.rs 60-82: the loop from component i on; trace lists the iterations
RECURSIVE walk(_, _, _, _, _, _, _)
walk(rt, comps, i, node, param_values, path, trace) ==
    IF i > Len(comps)
    THEN [err |-> FALSE, node |-> node, param_values |-> param_values,
          path |-> path, trace |-> trace]
    ELSE LET d == descend(rt, node, comps[i])
             t == Append(trace, [node |-> node, component |-> comps[i],
                                 took |-> d.took])
         IN  IF d.took = "literal"
             THEN walk(rt, comps, i + 1, d.node, param_values, path, t)
             ELSE IF d.took = "placeholder"
             THEN walk(rt, comps, i + 1, d.node,
                       Append(param_values, comps[i]), path, t)
             ELSE IF d.took = "static"
             THEN [err |-> FALSE, node |-> node, param_values |-> param_values,
                   path |-> strip_static(path, rt[node].handler_group.path),
                   trace |-> t]
             ELSE [err |-> TRUE, node |-> node, param_values |-> param_values,
                   path |-> path, trace |-> t]

\* search.rs 88-92
changed_path(path, full_path) == IF path # full_path THEN SomePath(path) ELSE NoPath

NotFound(full_path, trace) ==
    [found |-> FALSE, plain |-> FALSE, handler_group |-> NoGroup,
     param_values |-> <<>>, changed_path |-> NoPath, trace |-> trace]

\* a lookup that walks the trie first and falls back to the plain-route table
find_handler_group_trie_first(rt, pr, full_path) ==
    LET path == normalize_path(full_path)
        w == walk(rt, get_base_components(path), 1, <<>>, <<>>, path, <<>>)
    IN  IF ~w.err /\ rt[w.node].handler_group # NoGroup
        THEN [found |-> TRUE, plain |-> FALSE,
              handler_group |-> rt[w.node].handler_group,
              param_values |-> w.param_values,
              changed_path |-> changed_path(w.path, full_path),
              trace |-> w.trace]
        ELSE IF path \in DOMAIN pr
        THEN [found |-> TRUE, plain |-> TRUE, handler_group |-> pr[path],
              param_values |-> <<>>, changed_path |-> changed_path(path, full_path),
              trace |-> <<>>]
        ELSE NotFound(full_path, w.trace)

\* a lookup that returns whatever the node its walk ends at holds
find_handler_group_any_end(rt, pr, full_path) ==
    LET path == normalize_path(full_path)
        w == walk(rt, get_base_components(path), 1, <<>>, <<>>, path, <<>>)
    IN  IF path \in DOMAIN pr
        THEN [found |-> TRUE, plain |-> TRUE, handler_group |-> pr[path],
              param_values |-> <<>>, changed_path |-> changed_path(path, full_path),
              trace |-> <<>>]
        ELSE IF w.err
        THEN NotFound(full_path, w.trace)
        ELSE [found |-> TRUE, plain |-> FALSE,
              handler_group |-> rt[w.node].handler_group,
              param_values |-> w.param_values,
              changed_path |-> changed_path(w.path, full_path),
              trace |-> w.trace]

\* search.rs 52-98: FindResult, or NotFoundException when found is FALSE
find_handler_group(rt, pr, full_path) ==
    LET path == normalize_path(full_path)
        w == walk(rt, get_base_components(path), 1, <<>>, <<>>, path, <<>>)
    IN  IF path \in DOMAIN pr
        THEN [found |-> TRUE, plain |-> TRUE, handler_group |-> pr[path],
              param_values |-> <<>>, changed_path |-> changed_path(path, full_path),
              trace |-> <<>>]
        ELSE IF w.err \/ rt[w.node].handler_group = NoGroup
        THEN NotFound(full_path, w.trace)
        ELSE [found |-> TRUE, plain |-> FALSE,
              handler_group |-> rt[w.node].handler_group,
              param_values |-> w.param_values,
              changed_path |-> changed_path(w.path, full_path),
              trace |-> w.trace]

(***************************************************************************)
(* Route declarations                                                      *)
(***************************************************************************)
ID == [name |-> "id", full |-> <<"id">>]
N == [name |-> "n", full |-> <<"n">>]

HttpRoute(path, path_parameters, route_handler_map) ==
    [kind |-> "http", path |-> path, path_parameters |-> path_parameters,
     route_handler_map |-> route_handler_map, route_handler |-> "none"]

WebSocketRoute(path, path_parameters, route_handler) ==
    [kind |-> "websocket", path |-> path, path_parameters |-> path_parameters,
     route_handler_map |-> EmptyMap, route_handler |-> route_handler]

ASGIRoute(path, path_parameters, route_handler) ==
    [kind |-> "asgi", path |-> path, path_parameters |-> path_parameters,
     route_handler_map |-> EmptyMap, route_handler |-> route_handler]

\* the declarations the build phase draws from
Routes == {
    HttpRoute(<<"/", "a">>, <<>>, [m \in {"GET"} |-> "g1"]),
    HttpRoute(<<"/", "a">>, <<>>, [m \in {"GET", "POST"} |-> "h2"]),
    WebSocketRoute(<<"/", "a">>, <<>>, "w3"),
    ASGIRoute(<<"/", "a">>, <<>>, "a4"),
    ASGIRoute(<<"/", "s">>, <<>>, "a5"),
    ASGIRoute(<<"/", "s">>, <<>>, "a6"),
    HttpRoute(<<"/", "{", "id", "}">>, <<ID>>, [m \in {"GET"} |-> "g7"]),
    HttpRoute(<<"/", "s", "/", "{", "id", "}">>, <<ID>>, [m \in {"GET"} |-> "g8"]),
    HttpRoute(<<"/", "{", "id", "}", "/", "{", "n", "}">>, <<ID, N>>,
              [m \in {"GET"} |-> "g9"]),
    HttpRoute(<<"/", "s", "/", "a">>, <<>>, [m \in {"GET"} |-> "g10"]),
    ASGIRoute(<<"/", "{", "id", "}">>, <<ID>>, "a11"),
    \* declarations that carry a parameter their path does not use
    HttpRoute(<<"/", "s">>, <<ID>>, [m \in {"GET"} |-> "g12"]),
    ASGIRoute(<<"/", "s">>, <<ID>>, "a13")
}

\* the paths that may be marked static
StaticCandidates == {<<"/", "s">>}

\* the request paths the serving phase draws from
RequestPaths == {
    <<"/", "a">>, <<"/", "a", "/">>, <<"/", "s">>,
    <<"/", "s", "/", "x">>, <<"/", "s", "/", "s", "/", "x">>,
    <<"/", "s", "/", "a">>, <<"/", "x">>, <<"/", "x", "/", "y">>
}

(***************************************************************************)
(* Route map facade of the later revision (4.6)                            *)
(***************************************************************************)
\* the HandlerGroup variant a declaration builds
handler_group_of(route, is_static) ==
    IF is_static THEN Static(route.path, route.route_handler)
    ELSE IF route.kind = "http"
    THEN NonAsgi(route.path_parameters,
                 [k \in {HandlerType(m) : m \in DOMAIN route.route_handler_map} |->
                     route.route_handler_map[
                         CHOOSE m \in DOMAIN route.route_handler_map : HandlerType(m) = k]])
    ELSE IF route.kind = "websocket"
    THEN NonAsgi(route.path_parameters, [k \in {"Websocket"} |-> route.route_handler])
    ELSE Asgi(route.path_parameters, route.route_handler)

\* RouteMap::add_route: [result, root, plain_routes]
add_route(rt, pr, sp, route) ==
    LET is_static == route.path \in sp
        r == find_insert_handler_group(rt, pr, route.path, route.path_parameters,
                 is_static, handler_group_of(route, is_static))
    IN  IF route.kind \notin {"http", "websocket", "asgi"}
        THEN [result |-> "unknown_route_kind", root |-> rt, plain_routes |-> pr]
        ELSE IF is_static /\ (route.path_parameters # <<>> \/ route.kind # "asgi")
        THEN [result |-> "conflict", root |-> rt, plain_routes |-> pr]
        ELSE [result |-> IF r.ok THEN "ok" ELSE "conflict",
              root |-> r.root, plain_routes |-> r.plain_routes]

(***************************************************************************)
(* Actions of the later revision                                           *)
(***************************************************************************)
Init ==
    /\ root = [k \in {<<>>} |-> NodeDefault]
    /\ plain_routes = [k \in {} |-> NoGroup]
    /\ static_paths = {}
    /\ adds = 0
    /\ declared = {}
    /\ map = <<>>
    /\ plain_route_set = {}
    /\ phase = "build"
    /\ last = [op |-> "new"]
    /\ calls = <<>>
    /\ stack = <<>>
    /\ owned = {}
    /\ released = {}

\* lib.rs 154-156
is_static_path(paths, path) == path \in paths

\* an add_static_path that records the call and inserts nothing
AddStaticPath_nothing(path) ==
    /\ phase = "build"
    /\ static_paths' = static_paths
    /\ last' = [op |-> "add_static_path", path |-> path]
    /\ UNCHANGED <<root, plain_routes, adds, declared, map, plain_route_set, phase, calls, stack, owned, released>>

AddStaticPath(path) ==
    /\ phase = "build"
    /\ static_paths' = static_paths \cup {path}
    /\ last' = [op |-> "add_static_path", path |-> path]
    /\ UNCHANGED <<root, plain_routes, adds, declared, map, plain_route_set, phase, calls, stack, owned, released>>

RemoveStaticPath(path) ==
    /\ phase = "build"
    /\ static_paths' = static_paths \ {path}
    /\ last' = [op |-> "remove_static_path", path |-> path,
                result |-> path \in static_paths]
    /\ UNCHANGED <<root, plain_routes, adds, declared, map, plain_route_set, phase, calls, stack, owned, released>>

AddRoute(route) ==
    /\ phase = "build"
    /\ adds < MaxAdds
    /\ LET r == add_route(root, plain_routes, static_paths, route)
       IN  /\ root' = r.root
           /\ plain_routes' = r.plain_routes
           /\ last' = [op |-> "add_route", route |-> route, result |-> r.result,
                       before |-> [root |-> root, plain_routes |-> plain_routes,
                                   static_paths |-> static_paths]]
           /\ declared' = IF r.result = "ok"
                          THEN declared \cup {[route |-> route,
                                               is_static |-> route.path \in static_paths]}
                          ELSE declared
    /\ adds' = adds + 1
    /\ UNCHANGED <<static_paths, map, plain_route_set, phase, calls, stack, owned, released>>

\* a behaviour is a build phase closed by a lookup: a lookup changes nothing of
\* the map, so every pair of a reachable map and a request is covered
Find(full_path) ==
    /\ phase = "build"
    /\ last' = [op |-> "find", full_path |-> full_path,
                result |-> find_handler_group(root, plain_routes, full_path)]
    /\ phase' = "serve"
    /\ UNCHANGED <<root, plain_routes, static_paths, adds, declared, map, plain_route_set, calls, stack, owned, released>>

Next ==
    \/ \E path \in StaticCandidates : AddStaticPath(path)
    \/ \E path \in StaticCandidates : RemoveStaticPath(path)
    \/ \E route \in Routes : AddRoute(route)
    \/ \E full_path \in RequestPaths : Find(full_path)

Spec == Init /\ [][Next]_vars

(***************************************************************************)
(* Properties of the later revision                                        *)
(***************************************************************************)
StrictlyExtends(long, short) ==
    Len(long) > Len(short) /\ SubSeq(long, 1, Len(short)) = short

RequestComponents(full_path) == get_base_components(normalize_path(full_path))

\* the lookup stopped at a static-prefix match
StaticMatch(res) ==
    res.found /\ res.trace # <<>> /\ res.trace[Len(res.trace)].took = "static"

\* C1: when a lookup stops at a static-prefix match whose static path P is not
\* "/", the rewritten path is the normalized request path with the leading P
\* removed exactly once; later occurrences of P in the rest are kept.
C1_StaticPrefixRemovedOnce ==
    (last.op = "find" /\ StaticMatch(last.result)
        /\ last.result.handler_group.path # <<"/">>)
    => LET p == normalize_path(last.full_path)
           sp == last.result.handler_group.path
       IN  /\ last.result.handler_group.tag = "Static"
           /\ IsPrefix(sp, p)
           /\ last.result.changed_path = SomePath(SubSeq(p, Len(sp) + 1, Len(p)))

\* the nodes that hold a Static group whose path the request strictly extends
StaticAbove(full_path) ==
    {k \in DOMAIN root :
        /\ root[k].handler_group.tag = "Static"
        /\ StrictlyExtends(RequestComponents(full_path),
                           get_base_components(root[k].handler_group.path))}

\* C2 as written: once a Static group is installed at P, every request path whose
\* segments strictly extend P's resolves to that group's handler, whatever other
\* routes have been declared.
C2_StaticServesEverySubPath ==
    last.op = "find" =>
        \A k \in StaticAbove(last.full_path) :
            /\ last.result.found
            /\ last.result.handler_group = root[k].handler_group

\* the first request segment after the static path of node k
NextSegment(full_path, k) == RequestComponents(full_path)[Len(k) + 1]

\* the lookup has nothing else to route the request below the static node k
Unrouted(full_path, k) ==
    /\ normalize_path(full_path) \notin DOMAIN plain_routes
    /\ ~has_child(root, k, NextSegment(full_path, k))
    /\ ~has_placeholder_child(root, k)

\* C2 amended: once a Static group is installed at P, every request path whose
\* segments strictly extend P's resolves to that group's handler, provided the
\* normalized request path is not a plain-route key and P's node has neither a
\* literal child for the next request segment nor a placeholder child.
C2_StaticServesUnroutedSubPaths ==
    last.op = "find" =>
        \A k \in StaticAbove(last.full_path) :
            Unrouted(last.full_path, k) =>
                /\ last.result.found
                /\ last.result.handler_group = root[k].handler_group
                /\ last.result.handler_group.handler \in
                      {d.route.route_handler : d \in declared}

C2_Witness ==
    /\ last.op = "find"
    /\ Cardinality(declared) >= 2
    /\ \E k \in StaticAbove(last.full_path) :
          Unrouted(last.full_path, k) /\ StaticMatch(last.result)

\* the components of the iterations that took the placeholder child
RECURSIVE PlaceholderComponents(_)
PlaceholderComponents(trace) ==
    IF trace = <<>> THEN <<>>
    ELSE (IF Head(trace).took = "placeholder" THEN <<Head(trace).component>> ELSE <<>>)
         \o PlaceholderComponents(Tail(trace))

\* C3: at every node a lookup visits, a literal child keyed by the current
\* segment is taken, and no parameter value is recorded for the segment, even
\* when the node has a placeholder child; the static short-circuit is taken only
\* when the node has neither a matching literal child nor a placeholder child.
C3_LiteralThenPlaceholderThenStatic ==
    last.op = "find" =>
        LET tr == last.result.trace
        IN  /\ \A i \in 1..Len(tr) :
                  /\ has_child(root, tr[i].node, tr[i].component) =>
                        /\ tr[i].took = "literal"
                        /\ i < Len(tr) =>
                              tr[i + 1].node = child(tr[i].node, tr[i].component)
                  /\ tr[i].took = "static" =>
                        /\ ~has_child(root, tr[i].node, tr[i].component)
                        /\ ~has_placeholder_child(root, tr[i].node)
            /\ (last.result.found /\ ~last.result.plain) =>
                  last.result.param_values = PlaceholderComponents(tr)

C3_Witness ==
    /\ last.op = "find"
    /\ last.result.found
    /\ \E i \in 1..Len(last.result.trace) :
          LET e == last.result.trace[i]
          IN  /\ has_child(root, e.node, e.component)
              /\ has_placeholder_child(root, e.node)
              /\ e.took = "literal"
    /\ \E i \in 1..Len(last.result.trace) : last.result.trace[i].took = "static"

\* the template positions of route that are placeholders
PlaceholderPositions(route) ==
    LET comps == get_base_components(route.path)
    IN  {i \in 1..Len(comps) :
            is_placeholder(comps[i], param_set(route.path_parameters))}

\* full_path is route's template with a value in the place of each placeholder
Instantiates(full_path, route) ==
    LET t == get_base_components(route.path)
        q == RequestComponents(full_path)
    IN  /\ Len(q) = Len(t)
        /\ \A i \in 1..Len(t) : i \in PlaceholderPositions(route) \/ q[i] = t[i]

\* the values substituted for the placeholders, left to right, from position i on
RECURSIVE SubstitutedValues(_, _, _)
SubstitutedValues(full_path, route, i) ==
    LET q == RequestComponents(full_path)
    IN  IF i > Len(q) THEN <<>>
        ELSE (IF i \in PlaceholderPositions(route) THEN <<q[i]>> ELSE <<>>)
             \o SubstitutedValues(full_path, route, i + 1)

\* no substituted value equals a literal sibling segment at its position
NoLiteralSibling(full_path, route) ==
    LET key == insert_key(route.path, param_set(route.path_parameters))
        q == RequestComponents(full_path)
    IN  \A i \in PlaceholderPositions(route) :
            ~has_child(root, SubSeq(key, 1, i - 1), q[i])

C4_Case(full_path, route) ==
    /\ PlaceholderPositions(route) # {}
    /\ Instantiates(full_path, route)
    /\ normalize_path(full_path) \notin DOMAIN plain_routes
    /\ NoLiteralSibling(full_path, route)

\* C4: for every declared route with placeholders and every request path got
\* from its template by putting a value for each placeholder (the path not a
\* plain-route key, no value equal to a literal sibling), the lookup returns the
\* group at the route's node and the substituted values in left-to-right order.
C4_PlaceholderValuesInOrder ==
    last.op = "find" =>
        \A d \in declared :
            C4_Case(last.full_path, d.route) =>
                LET key == insert_key(d.route.path, param_set(d.route.path_parameters))
                IN  /\ last.result.found
                    /\ last.result.handler_group = root[key].handler_group
                    /\ last.result.handler_group.path_parameters =
                          d.route.path_parameters
                    /\ last.result.param_values =
                          SubstitutedValues(last.full_path, d.route, 1)

C4_Witness ==
    /\ last.op = "find"
    /\ \E d \in declared :
          /\ C4_Case(last.full_path, d.route)
          /\ Len(d.route.path_parameters) = 2
          /\ last.result.param_values = <<<<"x">>, <<"y">>>>

\* C5: for every route declared with a literal path, no parameters and not
\* static, looking up the declared path, or that path with a trailing separator,
\* returns the group of the plain-route table with no parameter values, even when
\* a trie route also matches the path.
C5_PlainRouteFirst ==
    last.op = "find" =>
        \A d \in declared :
            (/\ d.route.path_parameters = <<>>
             /\ ~d.is_static
             /\ last.full_path \in {d.route.path, d.route.path \o <<"/">>})
            => /\ last.result.found
               /\ last.result.plain
               /\ d.route.path \in DOMAIN plain_routes
               /\ last.result.handler_group = plain_routes[d.route.path]
               /\ last.result.param_values = <<>>

C5_Witness ==
    /\ last.op = "find"
    /\ last.result.plain
    /\ last.full_path # normalize_path(last.full_path)
    /\ \E d \in declared : ~d.is_static /\ last.full_path = d.route.path \o <<"/">>
    /\ find_handler_group(root, [k \in {} |-> NoGroup], last.full_path).found

\* the group at the position a parameter-free or parameterized declaration ends at
PositionGroup(rt, pr, route) ==
    LET key == insert_key(route.path, param_set(route.path_parameters))
    IN  IF route.path_parameters # <<>>
        THEN IF key \in DOMAIN rt THEN rt[key].handler_group ELSE NoGroup
        ELSE IF route.path \in DOMAIN pr THEN pr[route.path] ELSE NoGroup

\* the method/protocol keys and handlers a declaration supplies
Supplied(route) ==
    IF route.kind = "websocket" THEN [k \in {"Websocket"} |-> route.route_handler]
    ELSE [k \in {HandlerType(m) : m \in DOMAIN route.route_handler_map} |->
             route.route_handler_map[
                 CHOOSE m \in DOMAIN route.route_handler_map : HandlerType(m) = k]]

\* C8: after successful HTTP or Websocket declarations that end at one position
\* with equal parameter sets, the Dispatch group there holds exactly the union of
\* the declared keys, each mapped to the handler of the latest declaration that
\* supplied it.
C8_DispatchUnionLastWins ==
    /\ \A d \in declared :
          d.route.kind \in {"http", "websocket"} =>
              LET g == PositionGroup(root, plain_routes, d.route)
              IN  /\ g.tag = "NonAsgi"
                  /\ g.path_parameters = d.route.path_parameters
                  /\ DOMAIN g.asgi_handlers =
                        UNION {DOMAIN Supplied(e.route) : e \in
                                 {e \in declared :
                                     /\ e.route.kind \in {"http", "websocket"}
                                     /\ e.route.path = d.route.path
                                     /\ e.route.path_parameters = d.route.path_parameters}}
    /\ (last.op = "add_route" /\ last.result = "ok"
            /\ last.route.kind \in {"http", "websocket"})
       => LET old == PositionGroup(last.before.root, last.before.plain_routes,
                                   last.route).asgi_handlers
              now == PositionGroup(root, plain_routes, last.route).asgi_handlers
              new == Supplied(last.route)
          IN  /\ DOMAIN now = DOMAIN old \cup DOMAIN new
              /\ \A k \in DOMAIN now :
                    now[k] = IF k \in DOMAIN new THEN new[k] ELSE old[k]

C8_Witness ==
    /\ last.op = "add_route" /\ last.result = "ok"
    /\ last.route.kind = "http"
    /\ LET old == PositionGroup(last.before.root, last.before.plain_routes,
                                last.route).asgi_handlers
           now == PositionGroup(root, plain_routes, last.route).asgi_handlers
       IN  /\ DOMAIN old = {"HttpGet", "Websocket"}
           /\ DOMAIN now = {"HttpGet", "HttpPost", "Websocket"}
           /\ now["HttpGet"] # old["HttpGet"]

(***************************************************************************)
(* The component-set revision (route_map/lib.rs, rust/src/route_map.rs).   *)
(* A node is known by its key, the sequence of child names from the root;  *)
(* children is the set of keys one name longer.                            *)
(***************************************************************************)
None == [some |-> FALSE, value |-> <<>>]
Some(v) == [some |-> TRUE, value |-> v]

\* Node::new
NodeNew == [components |-> {}, path_parameters |-> None, asgi_handlers |-> None,
            is_asgi |-> FALSE, static_path |-> None]

\* an insertion whose new nodes start with an empty handler table
or_insert_with_handlers(m, node, name) ==
    IF Append(node, name) \in DOMAIN m THEN m
    ELSE [k \in DOMAIN m \cup {Append(node, name)} |->
             IF k \in DOMAIN m THEN m[k]
             ELSE [NodeNew EXCEPT !.asgi_handlers = Some(EmptyMap)]]

\* children.entry(name).or_insert_with(Node::new) below node
or_insert(m, node, name) ==
    IF Append(node, name) \in DOMAIN m THEN m
    ELSE [k \in DOMAIN m \cup {Append(node, name)} |->
             IF k \in DOMAIN m THEN m[k] ELSE NodeNew]

\* lib.rs 355-359: each parameter's full token removed from the path
RECURSIVE strip_param_definitions(_, _, _)
strip_param_definitions(path, path_parameters, i) ==
    IF i > Len(path_parameters) THEN path
    ELSE strip_param_definitions(replace(path, path_parameters[i].full, <<>>),
                                 path_parameters, i + 1)

\* lib.rs 366-374: the components inserted from position i on, below node
RECURSIVE insert_components(_, _, _, _)
insert_components(m, node, components, i) ==
    IF i > Len(components) THEN [map |-> m, node |-> node]
    ELSE LET c == components[i]
             marked == [m EXCEPT ![node].components = @ \cup {c}]
         IN  insert_components(or_insert(marked, node, c), Append(node, c),
                               components, i + 1)

\* a configuration that keeps the catch-all handler a node already has
configure_route_map_node_keep_asgi(cur_node, sp, route, path, path_parameters) ==
    LET n1 == IF cur_node.path_parameters.some THEN cur_node
              ELSE [cur_node EXCEPT !.path_parameters = Some(path_parameters)]
        n2 == IF n1.asgi_handlers.some THEN n1
              ELSE [n1 EXCEPT !.asgi_handlers = Some(EmptyMap)]
        n3 == IF path \in sp
              THEN [n2 EXCEPT !.static_path = Some(path), !.is_asgi = TRUE]
              ELSE n2
        h == n3.asgi_handlers.value
    IN  IF route.kind = "http"
        THEN [n3 EXCEPT !.asgi_handlers = Some(Overwrite(h, route.route_handler_map))]
        ELSE IF route.kind = "websocket"
        THEN [n3 EXCEPT !.asgi_handlers =
                 Some(Overwrite(h, [k \in {"websocket"} |-> route.route_handler]))]
        ELSE IF route.kind = "asgi"
        THEN [n3 EXCEPT !.asgi_handlers =
                 Some(Overwrite([k \in {"asgi"} |-> route.route_handler], h)),
                        !.is_asgi = TRUE]
        ELSE n3

\* a configuration that records the parameters of every declaration it is given
configure_route_map_node_params_last(cur_node, sp, route, path, path_parameters) ==
    LET n1 == [cur_node EXCEPT !.path_parameters = Some(path_parameters)]
        n2 == IF n1.asgi_handlers.some THEN n1
              ELSE [n1 EXCEPT !.asgi_handlers = Some(EmptyMap)]
        n3 == IF path \in sp
              THEN [n2 EXCEPT !.static_path = Some(path), !.is_asgi = TRUE]
              ELSE n2
        h == n3.asgi_handlers.value
    IN  IF route.kind = "http"
        THEN [n3 EXCEPT !.asgi_handlers = Some(Overwrite(h, route.route_handler_map))]
        ELSE IF route.kind = "websocket"
        THEN [n3 EXCEPT !.asgi_handlers =
                 Some(Overwrite(h, [k \in {"websocket"} |-> route.route_handler]))]
        ELSE IF route.kind = "asgi"
        THEN [n3 EXCEPT !.asgi_handlers =
                 Some(Overwrite(h, [k \in {"asgi"} |-> route.route_handler])),
                        !.is_asgi = TRUE]
        ELSE n3

\* lib.rs 273-334: the node after the route is configured on it
configure_route_map_node(cur_node, sp, route, path, path_parameters) ==
    LET n1 == IF cur_node.path_parameters.some THEN cur_node
              ELSE [cur_node EXCEPT !.path_parameters = Some(path_parameters)]
        n2 == IF n1.asgi_handlers.some THEN n1
              ELSE [n1 EXCEPT !.asgi_handlers = Some(EmptyMap)]
        n3 == IF path \in sp
              THEN [n2 EXCEPT !.static_path = Some(path), !.is_asgi = TRUE]
              ELSE n2
        h == n3.asgi_handlers.value
    IN  IF route.kind = "http"
        THEN [n3 EXCEPT !.asgi_handlers = Some(Overwrite(h, route.route_handler_map))]
        ELSE IF route.kind = "websocket"
        THEN [n3 EXCEPT !.asgi_handlers =
                 Some(Overwrite(h, [k \in {"websocket"} |-> route.route_handler]))]
        ELSE IF route.kind = "asgi"
        THEN [n3 EXCEPT !.asgi_handlers =
                 Some(Overwrite(h, [k \in {"asgi"} |-> route.route_handler])),
                        !.is_asgi = TRUE]
        ELSE n3

\* lib.rs 355-360: the path with every placeholder written "*"
starred_path(path, path_parameters) ==
    replace(strip_param_definitions(path, path_parameters, 1), <<"{", "}">>, <<"*">>)

\* lib.rs 344-392: [map, plain_routes, cur_node]
add_node_to_route_map(m, plain, sp, route) ==
    LET path == route.path
        path_parameters == route.path_parameters
        starred == starred_path(path, path_parameters)
        ins == insert_components(m, <<>>, get_base_components(starred), 1)
        pm == or_insert(m, <<>>, path)
    IN  IF path_parameters # <<>> \/ path \in sp
        THEN [map |-> [ins.map EXCEPT ![ins.node] =
                          configure_route_map_node(@, sp, route, starred, path_parameters)],
              plain_routes |-> plain, cur_node |-> ins.node]
        ELSE [map |-> [pm EXCEPT ![<<path>>] =
                          configure_route_map_node(@, sp, route, path, path_parameters)],
              plain_routes |-> plain \cup {path}, cur_node |-> <<path>>]

\* util.rs 29-46
path_parameters_eq(a, b) ==
    Len(a) = Len(b) /\ \A i \in 1..Len(a) : a[i] = b[i]

\* lib.rs 164-182: the routes from position i on; [ok, map, plain_routes, done],
\* done the number of routes that were added without an error
RECURSIVE add_routes(_, _, _, _, _)
add_routes(m, plain, sp, routes, i) ==
    IF i > Len(routes)
    THEN [ok |-> TRUE, map |-> m, plain_routes |-> plain, done |-> i - 1]
    ELSE LET a == add_node_to_route_map(m, plain, sp, routes[i])
         IN  IF ~path_parameters_eq(a.map[a.cur_node].path_parameters.value,
                                    routes[i].path_parameters)
             THEN [ok |-> FALSE, map |-> a.map, plain_routes |-> a.plain_routes,
                   done |-> i - 1]
             ELSE add_routes(a.map, a.plain_routes, sp, routes, i + 1)

\* lib.rs 405-424: the loop from component i on; [err, node, path_params, scope_path]
RECURSIVE traverse_to_node(_, _, _, _, _, _)
traverse_to_node(m, components, i, cur_node, path_params, scope_path) ==
    IF i > Len(components)
    THEN [err |-> FALSE, node |-> cur_node, path_params |-> path_params,
          scope_path |-> scope_path]
    ELSE LET c == components[i]
             components_set == m[cur_node].components
             static_path == m[cur_node].static_path
         IN  IF c \in components_set
             THEN traverse_to_node(m, components, i + 1, Append(cur_node, c),
                                   path_params, scope_path)
             ELSE IF <<"*">> \in components_set
             THEN traverse_to_node(m, components, i + 1, Append(cur_node, <<"*">>),
                                   Append(path_params, c), scope_path)
             ELSE IF static_path.some
             THEN traverse_to_node(m, components, i + 1, cur_node, path_params,
                      IF static_path.value # <<"/">>
                      THEN replace(scope_path, static_path.value, <<>>)
                      ELSE scope_path)
             ELSE [err |-> TRUE, node |-> cur_node, path_params |-> path_params,
                   scope_path |-> scope_path]

\* lib.rs 446-454
scope_path_trimmed(scope_path) ==
    LET t == trim(scope_path)
    IN  IF t # <<"/">> /\ t # <<>> /\ t[Len(t)] = "/"
        THEN SubSeq(t, 1, Len(t) - 1) ELSE t

\* lib.rs 443-482: [outcome, asgi_handlers, is_asgi, scope]; outcome "panic" is the
\* unwrap of a missing map entry
parse_scope_to_route(m, plain, scope) ==
    LET path == scope_path_trimmed(scope.path)
        t == traverse_to_node(m, get_base_components(path), 1, <<>>, <<>>, scope.path)
        is_plain == path \in plain
        cur == IF is_plain THEN <<path>> ELSE t.node
        path_params == IF is_plain THEN <<>> ELSE t.path_params
        rewritten == IF is_plain THEN scope ELSE [scope EXCEPT !.path = t.scope_path]
    IN  IF is_plain /\ <<path>> \notin DOMAIN m
        THEN [outcome |-> "panic", asgi_handlers |-> EmptyMap, is_asgi |-> FALSE,
              scope |-> scope, node |-> cur]
        ELSE IF ~is_plain /\ t.err
        THEN [outcome |-> "not_found", asgi_handlers |-> EmptyMap, is_asgi |-> FALSE,
              scope |-> rewritten, node |-> cur]
        ELSE LET parsed == [rewritten EXCEPT !.path_params =
                               Some([definitions |-> m[cur].path_parameters.value,
                                     values |-> path_params])]
             IN  IF ~m[cur].asgi_handlers.some
                 THEN [outcome |-> "not_found", asgi_handlers |-> EmptyMap,
                       is_asgi |-> FALSE, scope |-> parsed, node |-> cur]
                 ELSE [outcome |-> "ok", asgi_handlers |-> m[cur].asgi_handlers.value,
                       is_asgi |-> m[cur].is_asgi, scope |-> parsed, node |-> cur]

\* the handler stored under key, or the panic of unwrapping a missing entry
get_unwrap(asgi_handlers, key) ==
    IF key \in DOMAIN asgi_handlers
    THEN [outcome |-> "handler", handler |-> asgi_handlers[key]]
    ELSE [outcome |-> "panic", handler |-> "none"]

\* lib.rs 194-197
get_or_method_not_allowed(asgi_handlers, method) ==
    IF method \in DOMAIN asgi_handlers
    THEN [outcome |-> "handler", handler |-> asgi_handlers[method]]
    ELSE [outcome |-> "method_not_allowed", handler |-> "none"]

\* lib.rs 185-202: [outcome, handler, scope] and the node, handlers and is_asgi
\* flag that parse_scope_to_route handed over
resolve_asgi_app(m, plain, scope) ==
    LET r == parse_scope_to_route(m, plain, scope)
        got == IF r.is_asgi THEN get_unwrap(r.asgi_handlers, "asgi")
               ELSE IF scope.type = "http"
               THEN get_or_method_not_allowed(r.asgi_handlers, scope.method)
               ELSE get_unwrap(r.asgi_handlers, "websocket")
    IN  IF r.outcome # "ok"
        THEN [outcome |-> r.outcome, handler |-> "none", scope |-> r.scope,
              matched |-> FALSE, asgi_handlers |-> EmptyMap, is_asgi |-> FALSE,
              node |-> r.node]
        ELSE [outcome |-> got.outcome, handler |-> got.handler, scope |-> r.scope,
              matched |-> TRUE, asgi_handlers |-> r.asgi_handlers,
              is_asgi |-> r.is_asgi, node |-> r.node]

(***************************************************************************)
(* Actions of the component-set revision                                   *)
(***************************************************************************)
LegacyRoutes == {
    HttpRoute(<<"/", "a">>, <<>>, [m \in {"GET"} |-> "g1"]),
    WebSocketRoute(<<"/", "a">>, <<>>, "w2"),
    ASGIRoute(<<"/", "s">>, <<>>, "a4"),
    ASGIRoute(<<"/", "s">>, <<>>, "a5"),
    HttpRoute(<<"/", "s">>, <<>>, [m \in {"GET"} |-> "g6"]),
    HttpRoute(<<"/", "a", "/", "{", "id", "}">>, <<ID>>, [m \in {"GET", "POST"} |-> "h7"]),
    HttpRoute(<<"/", "a", "/", "{", "n", "}">>, <<N>>, [m \in {"GET"} |-> "g8"])
}

\* the lists of at most MaxBatch routes that fit into the room left
RouteLists(room) ==
    UNION {[1..n -> LegacyRoutes] : n \in 0..(IF room < MaxBatch THEN room ELSE MaxBatch)}

\* the paths add_plain_route and remove_plain_route are called with
PlainCandidates == {<<"/", "a">>}

Scope(path, type, method) ==
    [path |-> path, type |-> type, method |-> method, path_params |-> None]

Scopes ==
    {Scope(path, "http", method) :
        path \in {<<"/", "a">>, <<"/", "a", "/">>, <<"/", "s">>,
                  <<"/", "s", "/", "x">>, <<"/", "a", "/", "x">>},
        method \in {"GET", "DELETE"}}
    \cup
    {Scope(path, "websocket", "none") :
        path \in {<<"/", "a">>, <<"/", "a", "/">>, <<"/", "s">>,
                  <<"/", "s", "/", "x">>, <<"/", "a", "/", "x">>}}

LegacyInit ==
    /\ map = [k \in {<<>>} |-> NodeNew]
    /\ plain_route_set = {}
    /\ static_paths = {}
    /\ adds = 0
    /\ declared = {}
    /\ root = <<>>
    /\ plain_routes = <<>>
    /\ phase = "build"
    /\ last = [op |-> "new"]
    /\ calls = <<>>
    /\ stack = <<>>
    /\ owned = {}
    /\ released = {}

\* rust/src/route_map.rs 139-142
AddPlainRoute(path) ==
    /\ phase = "build"
    /\ plain_route_set' = plain_route_set \cup {path}
    /\ last' = [op |-> "add_plain_route", path |-> path]
    /\ UNCHANGED <<root, plain_routes, static_paths, adds, declared, map, phase, calls, stack, owned, released>>

\* rust/src/route_map.rs 149-152
RemovePlainRoute(path) ==
    /\ phase = "build"
    /\ plain_route_set' = plain_route_set \ {path}
    /\ last' = [op |-> "remove_plain_route", path |-> path,
                result |-> path \in plain_route_set]
    /\ UNCHANGED <<root, plain_routes, static_paths, adds, declared, map, phase, calls, stack, owned, released>>

AddRoutes(routes) ==
    /\ phase = "build"
    /\ adds + Len(routes) <= MaxAdds
    /\ LET r == add_routes(map, plain_route_set, static_paths, routes, 1)
       IN  /\ map' = r.map
           /\ plain_route_set' = r.plain_routes
           /\ last' = [op |-> "add_routes", routes |-> routes, ok |-> r.ok,
                       done |-> r.done]
           /\ declared' = declared \cup
                  {[route |-> routes[i], is_static |-> routes[i].path \in static_paths] :
                      i \in 1..r.done}
    /\ adds' = adds + Len(routes)
    /\ UNCHANGED <<root, plain_routes, static_paths, phase, calls, stack, owned, released>>

ResolveAsgiApp(scope) ==
    /\ phase = "build"
    /\ last' = [op |-> "resolve_asgi_app", scope |-> scope,
                result |-> resolve_asgi_app(map, plain_route_set, scope)]
    /\ phase' = "serve"
    /\ UNCHANGED <<root, plain_routes, static_paths, adds, declared, map,
                   plain_route_set, calls, stack, owned, released>>

LegacyNext ==
    \/ \E path \in StaticCandidates : AddStaticPath(path)
    \/ \E path \in StaticCandidates : RemoveStaticPath(path)
    \/ \E path \in PlainCandidates : AddPlainRoute(path)
    \/ \E path \in PlainCandidates : RemovePlainRoute(path)
    \/ \E routes \in RouteLists(MaxAdds - adds) : AddRoutes(routes)
    \/ \E scope \in Scopes : ResolveAsgiApp(scope)

SpecLegacy == LegacyInit /\ [][LegacyNext]_vars

(***************************************************************************)
(* Properties of the component-set revision                                *)
(***************************************************************************)
\* the key resolve_asgi_app looks up in a node that is not flagged is_asgi
DispatchKey(scope) == IF scope.type = "http" THEN scope.method ELSE "websocket"

\* C6: when resolve matches a node that is not a catch-all, an HTTP scope gets
\* the handler stored under its method and any other scope the handler stored
\* under websocket; with the key absent the outcome is method-not-allowed for an
\* HTTP scope and not-found for any other scope.
C6_DispatchSelection ==
    (last.op = "resolve_asgi_app" /\ last.result.matched /\ ~last.result.is_asgi)
    => LET res == last.result
           key == DispatchKey(last.scope)
       IN  IF key \in DOMAIN res.asgi_handlers
           THEN res.outcome = "handler" /\ res.handler = res.asgi_handlers[key]
           ELSE res.outcome = IF last.scope.type = "http"
                              THEN "method_not_allowed" ELSE "not_found"

\* C7: in every state the build operations reach, resolve of every scope ends
\* with a handler, with not-found or with method-not-allowed, and never with
\* the abort of unwrapping a missing map entry.
C7_ResolveNeverAborts ==
    last.op = "resolve_asgi_app" =>
        last.result.outcome \in {"handler", "not_found", "method_not_allowed"}

\* the key of the node a declaration is configured on (lib.rs 361-391)
Position(d) ==
    IF d.route.path_parameters # <<>> \/ d.is_static
    THEN get_base_components(starred_path(d.route.path, d.route.path_parameters))
    ELSE <<d.route.path>>

\* C9: no catch-all declaration and method-specific declaration are both
\* accepted at one position: the later of the two fails with a conflict.
C9_CatchallDispatchConflict ==
    \A d \in declared : \A e \in declared :
        (d.route.kind = "asgi" /\ e.route.kind \in {"http", "websocket"})
        => Position(d) # Position(e)

\* the accepted catch-all declarations that the last declaration of the last
\* add_routes call repeats: other handler, same position, equal parameters
Repeated ==
    LET r == last.routes[Len(last.routes)]
        is_static == r.path \in static_paths
    IN  {d \in declared :
            /\ d.route.kind = "asgi"
            /\ d.route # r
            /\ Position(d) = Position([route |-> r, is_static |-> is_static])
            /\ path_parameters_eq(d.route.path_parameters, r.path_parameters)}

\* the call came to its last declaration: the ones before it were added
C10_Case ==
    /\ last.op = "add_routes"
    /\ last.routes # <<>>
    /\ last.done >= Len(last.routes) - 1
    /\ last.routes[Len(last.routes)].kind = "asgi"
    /\ Repeated # {}

\* the scopes whose lookup ends at the node the declaration r is configured on
ScopesAt(r) ==
    {scope \in Scopes :
        LET res == resolve_asgi_app(map, plain_route_set, scope)
        IN  res.node = Position([route |-> r, is_static |-> r.path \in static_paths])
            /\ res.outcome # "not_found"}

\* C10: a catch-all declaration that repeats an accepted catch-all declaration
\* at the same position with equal parameters succeeds, and every lookup that
\* ends at the position, whatever its method or protocol, returns the handler
\* of the later declaration.
C10_SecondCatchallWins ==
    C10_Case =>
        LET r == last.routes[Len(last.routes)]
        IN  /\ last.ok
            /\ \A scope \in ScopesAt(r) :
                  LET res == resolve_asgi_app(map, plain_route_set, scope)
                  IN  res.outcome = "handler" /\ res.handler = r.route_handler

C10_Witness ==
    /\ C10_Case
    /\ last.ok
    /\ LET r == last.routes[Len(last.routes)]
       IN  /\ \E scope \in ScopesAt(r) : scope.type = "http"
           /\ \E scope \in ScopesAt(r) : scope.type = "websocket"
           /\ \A scope \in ScopesAt(r) :
                 resolve_asgi_app(map, plain_route_set, scope).handler = r.route_handler

\* the key of the node a declaration of route ends at under the static paths sp
PositionOf(route, sp) == Position([route |-> route, is_static |-> route.path \in sp])

\* the parameters on record at the position of routes[i] when add_routes comes
\* to it: those of the node in m, else those of the first earlier route of the
\* list that ends at the position
Recorded(m, sp, routes, i) ==
    LET k == PositionOf(routes[i], sp)
        earlier == {j \in 1..(i - 1) : PositionOf(routes[j], sp) = k}
    IN  IF k \in DOMAIN m /\ m[k].path_parameters.some THEN m[k].path_parameters
        ELSE IF earlier # {}
        THEN Some(routes[CHOOSE j \in earlier : \A l \in earlier : j <= l].path_parameters)
        ELSE None

\* routes[i] gives parameters that differ from the ones on record at its position
Conflicts(m, sp, routes, i) ==
    /\ Recorded(m, sp, routes, i).some
    /\ Recorded(m, sp, routes, i).value # routes[i].path_parameters

\* C11: the parameters recorded at a node are those of the first declaration
\* that ended there and never change afterwards, and add_routes fails exactly
\* when one of its declarations gives parameters that differ from the ones
\* recorded at its position.
C11_ParametersFixedByFirst ==
    [][/\ \A k \in DOMAIN map :
             map[k].path_parameters.some =>
                 k \in DOMAIN map' /\ map'[k].path_parameters = map[k].path_parameters
       /\ last'.op = "add_routes" =>
             /\ last'.ok <=> \A i \in 1..Len(last'.routes) :
                                ~Conflicts(map, static_paths, last'.routes, i)
             /\ \A i \in 1..Len(last'.routes) :
                   LET k == PositionOf(last'.routes[i], static_paths)
                   IN  (k \in DOMAIN map' /\ map'[k].path_parameters.some)
                       => map'[k].path_parameters =
                             IF Recorded(map, static_paths, last'.routes, i).some
                             THEN Recorded(map, static_paths, last'.routes, i)
                             ELSE Some(last'.routes[i].path_parameters)]_vars

C11_Witness ==
    /\ last.op = "add_routes"
    /\ ~last.ok
    /\ \E i \in 1..Len(last.routes) :
          LET k == PositionOf(last.routes[i], static_paths)
          IN  /\ k \in DOMAIN map
              /\ map[k].path_parameters = Some(<<ID>>)
              /\ last.routes[i].path_parameters = <<N>>

\* the position in routes of the first declaration add_routes rejects
FirstConflict(m, sp, routes) ==
    CHOOSE i \in 1..Len(routes) :
        /\ Conflicts(m, sp, routes, i)
        /\ \A j \in 1..(i - 1) : ~Conflicts(m, sp, routes, j)

\* C12: an add_routes call that fails leaves the map as the declarations listed
\* before the rejected one built it: the rejected declaration and the ones after
\* it change no node, no plain route and no static path, and every lookup
\* returns what it returned with the earlier declarations alone.
C12_RejectedChangesNothing ==
    [][(last'.op = "add_routes" /\ ~last'.ok) =>
          LET n == FirstConflict(map, static_paths, last'.routes)
              kept == add_routes(map, plain_route_set, static_paths,
                                 SubSeq(last'.routes, 1, n - 1), 1)
          IN  /\ kept.ok
              /\ map' = kept.map
              /\ plain_route_set' = kept.plain_routes
              /\ static_paths' = static_paths
              /\ \A scope \in Scopes :
                    resolve_asgi_app(map', plain_route_set', scope) =
                        resolve_asgi_app(kept.map, kept.plain_routes, scope)]_vars

(***************************************************************************)
(* Further properties of the later revision                                *)
(***************************************************************************)
\* the last call was add_route of a declaration that ends in the trie
TrieDeclaration ==
    /\ last.op = "add_route"
    /\ (last.route.path_parameters # <<>> \/ last.route.path \in last.before.static_paths)

\* the group that was at the trie position of the last declaration before the call
ExistingGroup ==
    LET key == insert_key(last.route.path, param_set(last.route.path_parameters))
    IN  IF key \in DOMAIN last.before.root
        THEN last.before.root[key].handler_group ELSE NoGroup

\* the last declaration builds a Static group
DeclaresStatic ==
    /\ last.route.path \in last.before.static_paths
    /\ last.route.kind = "asgi"
    /\ last.route.path_parameters = <<>>

\* the last declaration builds a Catchall or a Dispatch group
DeclaresNonStatic == last.route.path \notin last.before.static_paths

\* C13: at a trie position that holds a Static group, declaring a Static group
\* again succeeds and changes nothing; declaring a Catchall or Dispatch group
\* where a Static group is, or a Static group where a Catchall or Dispatch group
\* is, fails with a conflict.
C13_StaticPairings ==
    TrieDeclaration =>
        /\ (ExistingGroup.tag = "Static" /\ DeclaresStatic)
           => /\ last.result = "ok"
              /\ root = last.before.root
              /\ plain_routes = last.before.plain_routes
        /\ (ExistingGroup.tag = "Static" /\ DeclaresNonStatic)
           => last.result = "conflict"
        /\ (ExistingGroup.tag \in {"Asgi", "NonAsgi"} /\ DeclaresStatic)
           => last.result = "conflict"

C13_Witness ==
    /\ TrieDeclaration
    /\ ExistingGroup.tag = "Static"
    /\ DeclaresNonStatic
    /\ last.route.kind = "http"
    /\ last.result = "conflict"

C13_WitnessStaticAgain ==
    TrieDeclaration /\ ExistingGroup.tag = "Static" /\ DeclaresStatic
        /\ ExistingGroup.handler # last.route.route_handler

C13_WitnessStaticOverDispatch ==
    TrieDeclaration /\ ExistingGroup.tag = "NonAsgi" /\ DeclaresStatic

(***************************************************************************)
(* Further properties of the component-set revision                        *)
(***************************************************************************)
\* C14: a declaration at a path that is in static_paths is accepted only with
\* no parameter definitions and a catch-all handler; any other declaration at
\* a static path is rejected.
C14_StaticRequiresCatchall ==
    \A d \in declared :
        d.is_static => d.route.kind = "asgi" /\ d.route.path_parameters = <<>>

\* a route object that is an instance of none of the three route classes
OtherRoute(path, path_parameters) ==
    [kind |-> "other", path |-> path, path_parameters |-> path_parameters,
     route_handler_map |-> EmptyMap, route_handler |-> "o1"]

\* the declarations of the runs that hand add_routes one route at a time
KindRoutes ==
    LegacyRoutes \cup {OtherRoute(<<"/", "a">>, <<>>),
                       OtherRoute(<<"/", "a", "/", "{", "id", "}">>, <<ID>>)}

LegacyKindsNext ==
    \/ \E path \in StaticCandidates : AddStaticPath(path)
    \/ \E path \in StaticCandidates : RemoveStaticPath(path)
    \/ \E path \in PlainCandidates : AddPlainRoute(path)
    \/ \E path \in PlainCandidates : RemovePlainRoute(path)
    \/ \E route \in KindRoutes : AddRoutes(<<route>>)
    \/ \E scope \in Scopes : ResolveAsgiApp(scope)

SpecLegacyKinds == LegacyInit /\ [][LegacyKindsNext]_vars

\* C15: add_routes given a declaration that is neither an HTTP, a Websocket nor
\* a catch-all route fails, and the map holds no node and no plain route for
\* the declaration.
C15_UnknownKindRejected ==
    (last.op = "add_routes"
        /\ \E i \in 1..Len(last.routes) :
              last.routes[i].kind \notin {"http", "websocket", "asgi"})
    => /\ ~last.ok
       /\ \A d \in declared : d.route.kind \in {"http", "websocket", "asgi"}

(***************************************************************************)
(* Path normalization on its own: the request paths are all strings of at  *)
(* most MaxLen characters over a separator, a blank and a letter.          *)
(***************************************************************************)
Alphabet == {"/", " ", "a"}

PathStrings == UNION {[1..n -> Alphabet] : n \in 0..MaxLen}

NormalizeInit ==
    /\ root = <<>>
    /\ plain_routes = <<>>
    /\ static_paths = {}
    /\ adds = 0
    /\ declared = {}
    /\ map = <<>>
    /\ plain_route_set = {}
    /\ phase = "serve"
    /\ last = [op |-> "new"]
    /\ calls = <<>>
    /\ stack = <<>>
    /\ owned = {}
    /\ released = {}

\* search.rs 53: the path find_handler_group goes on with
NormalizePath(full_path) ==
    /\ last' = [op |-> "normalize_path", full_path |-> full_path,
                result |-> normalize_path(full_path)]
    /\ UNCHANGED <<root, plain_routes, static_paths, adds, declared, map,
                   plain_route_set, phase, calls, stack, owned, released>>

\* lib.rs 446-454: the path parse_scope_to_route goes on with
ScopePathTrimmed(scope_path) ==
    /\ last' = [op |-> "scope_path_trimmed", scope_path |-> scope_path,
                result |-> scope_path_trimmed(scope_path)]
    /\ UNCHANGED <<root, plain_routes, static_paths, adds, declared, map,
                   plain_route_set, phase, calls, stack, owned, released>>

NormalizeNext ==
    \/ \E full_path \in PathStrings : NormalizePath(full_path)
    \/ \E scope_path \in PathStrings : ScopePathTrimmed(scope_path)

SpecNormalize == NormalizeInit /\ [][NormalizeNext]_vars

\* C16: normalizing a normalized path returns it unchanged, for every input
\* string, blanks and repeated separators included.
C16_NormalizeIdempotent ==
    last.op = "normalize_path" => normalize_path(last.result) = last.result

\* the canonical form of C17
Canonical(path) ==
    /\ path # <<>>
    /\ path[1] = "/"
    /\ \A i \in 1..(Len(path) - 1) : ~(path[i] = "/" /\ path[i + 1] = "/")
    /\ path[Len(path)] = "/" => path = <<"/">>

\* C17: the path the lookup goes on with starts with a separator, has no two
\* separators in a row and ends with a separator only when it is "/"; an empty
\* or blank input gives "/".
C17_LookupPathCanonical ==
    last.op = "scope_path_trimmed" =>
        /\ Canonical(last.result)
        /\ trim(last.scope_path) = <<>> => last.result = <<"/">>

(***************************************************************************)
(* Several callers resolving against a frozen map (lib.rs 185-202,         *)
(* 396-427, 443-483), one step per read or write of the caller's scope and *)
(* per loop iteration.                                                     *)
(***************************************************************************)
Callers == 1..NumCallers

\* the scopes the callers bring
CallerScopes == {
    Scope(<<"/", "s", "/", "x">>, "http", "GET"),
    Scope(<<"/", "a", "/", "x">>, "http", "GET"),
    Scope(<<"/", "a">>, "websocket", "none"),
    Scope(<<"/", "a", "/">>, "http", "DELETE")
}

\* RouteMap::new: a root node and nothing else
EmptyLegacyMap == [k \in {<<>>} |-> NodeNew]

\* the static paths and route lists the frozen maps are built from
FrozenSetups == {
    [static_paths |-> {},
     routes |-> <<HttpRoute(<<"/", "a">>, <<>>, [m \in {"GET"} |-> "g1"]),
                  WebSocketRoute(<<"/", "a">>, <<>>, "w2"),
                  HttpRoute(<<"/", "a", "/", "{", "id", "}">>, <<ID>>,
                            [m \in {"GET", "POST"} |-> "h7"])>>],
    [static_paths |-> {<<"/", "s">>},
     routes |-> <<ASGIRoute(<<"/", "s">>, <<>>, "a4"),
                  HttpRoute(<<"/", "a", "/", "{", "id", "}">>, <<ID>>,
                            [m \in {"GET", "POST"} |-> "h7"])>>],
    [static_paths |-> {<<"/", "s">>},
     routes |-> <<HttpRoute(<<"/", "s">>, <<>>, [m \in {"GET"} |-> "g6"]),
                  HttpRoute(<<"/", "a">>, <<>>, [m \in {"GET"} |-> "g1"])>>]
}

\* a caller that has not called yet
IdleCall ==
    [pc |-> "idle", scope0 |-> Scope(<<>>, "none", "none"),
     scope |-> Scope(<<>>, "none", "none"), path |-> <<>>, i |-> 1,
     cur_node |-> <<>>, path_params |-> <<>>, overlapped |-> FALSE,
     outcome |-> "none", handler |-> "none"]

\* a way of writing that stores every item in the scope of the first caller
set_item_first(cs, c, key, value) == [cs EXCEPT ![1].scope[key] = value]

\* scope.set_item(key, value) on the scope of caller c
set_item(cs, c, key, value) == [cs EXCEPT ![c].scope[key] = value]

\* the call returns or raises
Done(call, outcome, handler) ==
    [call EXCEPT !.pc = "done", !.outcome = outcome, !.handler = handler]

ConcurrentInit ==
    /\ \E setup \in FrozenSetups :
          LET built == add_routes(EmptyLegacyMap, {}, setup.static_paths,
                                  setup.routes, 1)
          IN  /\ map = built.map
              /\ plain_route_set = built.plain_routes
              /\ static_paths = setup.static_paths
              /\ adds = Len(setup.routes)
    /\ declared = {}
    /\ root = <<>>
    /\ plain_routes = <<>>
    /\ phase = "serve"
    /\ last = [op |-> "frozen"]
    /\ calls = [c \in Callers |-> IdleCall]
    /\ stack = <<>>
    /\ owned = {}
    /\ released = {}

\* caller c calls resolve_asgi_app(scope)
Begin(c, scope) ==
    /\ calls[c].pc = "idle"
    /\ calls' = [calls EXCEPT ![c] =
                    [IdleCall EXCEPT !.pc = "parse", !.scope0 = scope, !.scope = scope,
                        !.overlapped = \E d \in Callers \ {c} :
                                          calls[d].pc \notin {"idle", "done"}]]
    /\ UNCHANGED <<root, plain_routes, static_paths, adds, declared, map,
                   plain_route_set, phase, last, stack, owned, released>>

\* lib.rs 446-463: the path is read and the plain-route table consulted
ParsePath(c) ==
    /\ calls[c].pc = "parse"
    /\ LET path == scope_path_trimmed(calls[c].scope.path)
       IN  calls' = [calls EXCEPT ![c] =
              IF path \in plain_route_set
              THEN IF <<path>> \in DOMAIN map
                   THEN [@ EXCEPT !.pc = "set_path_params", !.path = path,
                                  !.cur_node = <<path>>]
                   ELSE Done(@, "panic", "none")
              ELSE [@ EXCEPT !.pc = "traverse", !.path = path]]
    /\ UNCHANGED <<root, plain_routes, static_paths, adds, declared, map,
                   plain_route_set, phase, last, stack, owned, released>>

\* lib.rs 405-426: one iteration of the loop of traverse_to_node, or its end
TraverseStep(c) ==
    /\ calls[c].pc = "traverse"
    /\ LET call == calls[c]
           components == get_base_components(call.path)
           component == components[call.i]
           node == map[call.cur_node]
           next == [calls EXCEPT ![c].i = @ + 1]
       IN  calls' =
              IF call.i > Len(components)
              THEN [calls EXCEPT ![c].pc = "set_path_params"]
              ELSE IF component \in node.components
              THEN [next EXCEPT ![c].cur_node = Append(@, component)]
              ELSE IF <<"*">> \in node.components
              THEN [next EXCEPT ![c].cur_node = Append(@, <<"*">>),
                                ![c].path_params = Append(@, component)]
              ELSE IF node.static_path.some
              THEN IF node.static_path.value # <<"/">>
                   THEN set_item(next, c, "path",
                                 replace(call.scope.path, node.static_path.value, <<>>))
                   ELSE next
              ELSE [calls EXCEPT ![c] = Done(@, "not_found", "none")]
    /\ UNCHANGED <<root, plain_routes, static_paths, adds, declared, map,
                   plain_route_set, phase, last, stack, owned, released>>

\* lib.rs 465-481: path_params is written and the handlers of the node taken
SetPathParams(c) ==
    /\ calls[c].pc = "set_path_params"
    /\ LET call == calls[c]
           node == map[call.cur_node]
           written == set_item(calls, c, "path_params",
                               Some([definitions |-> node.path_parameters.value,
                                     values |-> call.path_params]))
       IN  calls' = IF node.asgi_handlers.some
                    THEN [written EXCEPT ![c].pc = "dispatch"]
                    ELSE [written EXCEPT ![c] = Done(@, "not_found", "none")]
    /\ UNCHANGED <<root, plain_routes, static_paths, adds, declared, map,
                   plain_route_set, phase, last, stack, owned, released>>

\* lib.rs 188-201: the handler is chosen
Dispatch(c) ==
    /\ calls[c].pc = "dispatch"
    /\ LET call == calls[c]
           node == map[call.cur_node]
           asgi_handlers == node.asgi_handlers.value
           got == IF node.is_asgi THEN get_unwrap(asgi_handlers, "asgi")
                  ELSE IF call.scope.type = "http"
                  THEN get_or_method_not_allowed(asgi_handlers, call.scope.method)
                  ELSE get_unwrap(asgi_handlers, "websocket")
       IN  calls' = [calls EXCEPT ![c] = Done(@, got.outcome, got.handler)]
    /\ UNCHANGED <<root, plain_routes, static_paths, adds, declared, map,
                   plain_route_set, phase, last, stack, owned, released>>

ConcurrentNext ==
    \E c \in Callers :
        \/ \E scope \in CallerScopes : Begin(c, scope)
        \/ ParsePath(c)
        \/ TraverseStep(c)
        \/ SetPathParams(c)
        \/ Dispatch(c)

SpecConcurrent == ConcurrentInit /\ [][ConcurrentNext]_vars

\* what caller c would get from the call made alone
Alone(c) == resolve_asgi_app(map, plain_route_set, calls[c].scope0)

\* C18: the steps of resolve change neither the trie, the plain routes nor the
\* static paths, and however the steps of the callers interleave, every caller
\* ends with the outcome, the handler and the scope it would get alone.
C18_ResolveIsolated ==
    /\ [](\A c \in Callers :
            calls[c].pc = "done" =>
                /\ calls[c].outcome = Alone(c).outcome
                /\ calls[c].handler = Alone(c).handler
                /\ calls[c].scope = Alone(c).scope)
    /\ [][/\ map' = map
          /\ plain_route_set' = plain_route_set
          /\ static_paths' = static_paths]_vars

C18_Witness ==
    /\ \A c \in Callers : calls[c].pc = "done"
    /\ \E c \in Callers :
          /\ calls[c].overlapped
          /\ calls[c].scope.path # calls[c].scope0.path
          /\ calls[c].outcome = "handler"
    /\ \E c \in Callers : \E d \in Callers : calls[c].scope0 # calls[d].scope0

(***************************************************************************)
(* Dropping the route map (lib.rs 235-244): the children of the root are   *)
(* drained onto a work list, and every node popped from the list has its   *)
(* children drained onto it before the node goes out of scope.             *)
(***************************************************************************)
\* test/init.rs 61-72: a placeholder followed by depth literal segments
DeepRoute(depth) ==
    LET path[n \in 0..depth] ==
            IF n = 0 THEN <<"/", "{", "id", "}">> ELSE path[n - 1] \o <<"/", "a">>
    IN  HttpRoute(path[depth], <<ID>>, [m \in {"GET"} |-> "d9"])

\* the nodes in the children of node k
children_of(m, k) ==
    {j \in DOMAIN m : Len(j) = Len(k) + 1 /\ SubSeq(j, 1, Len(k)) = k}

\* the orders in which a hash map may hand out the nodes of S
Orders(S) ==
    {f \in [1..Cardinality(S) -> S] : \A i, j \in 1..Cardinality(S) : i # j => f[i] # f[j]}

\* a teardown that leaves the children of a node where they are
drain_nothing(m, held, node) == held

\* node.children.drain(): what is still held once the children of node are taken
drain(m, held, node) == held \ children_of(m, node)

DropInit ==
    /\ \E depth \in 0..MaxDepth : \E routes \in RouteLists(MaxBatch) :
          LET built == add_routes(EmptyLegacyMap, {}, {}, <<DeepRoute(depth)>> \o routes, 1)
          IN  /\ map = built.map
              /\ plain_route_set = built.plain_routes
              /\ adds = 1 + Len(routes)
    /\ static_paths = {}
    /\ declared = {}
    /\ root = <<>>
    /\ plain_routes = <<>>
    /\ phase = "serve"
    /\ last = [op |-> "frozen"]
    /\ calls = <<>>
    /\ stack = <<>>
    /\ owned = DOMAIN map \ {<<>>}
    /\ released = {}

\* lib.rs 238-239: the children of the root go onto the work list
DropBegin ==
    /\ phase = "serve"
    /\ \E order \in Orders(owned \ drain(map, owned, <<>>)) : stack' = order
    /\ owned' = drain(map, owned, <<>>)
    /\ phase' = "dropping"
    /\ UNCHANGED <<root, plain_routes, static_paths, adds, declared, map,
                   plain_route_set, last, calls, released>>

\* lib.rs 240-242: one iteration of the loop
DropStep ==
    /\ phase = "dropping"
    /\ stack # <<>>
    /\ LET node == stack[Len(stack)]
       IN  /\ \E order \in Orders(owned \ drain(map, owned, node)) :
                 stack' = SubSeq(stack, 1, Len(stack) - 1) \o order
           /\ owned' = drain(map, owned, node)
           /\ released' = released \cup {node}
    /\ UNCHANGED <<root, plain_routes, static_paths, adds, declared, map,
                   plain_route_set, phase, last, calls>>

\* lib.rs 243-244: the work list is empty, drop returns and the root is released
DropEnd ==
    /\ phase = "dropping"
    /\ stack = <<>>
    /\ phase' = "dropped"
    /\ released' = released \cup {<<>>}
    /\ UNCHANGED <<root, plain_routes, static_paths, adds, declared, map,
                   plain_route_set, last, calls, stack, owned>>

DropNext == DropBegin \/ DropStep \/ DropEnd

\* drop is one sequential loop: it keeps taking steps until it returns
SpecDrop == DropInit /\ [][DropNext]_vars /\ WF_vars(DropNext)

OnStack == {stack[i] : i \in 1..Len(stack)}

\* C19: dropping a map of any depth ends with every node released; a node below
\* the root is released only from the work list and only once its children have
\* been drained, so no released node still holds a child.
C19_DropDrainsThenReleases ==
    /\ [](\A k \in released : children_of(map, k) \cap owned = {})
    /\ [](\A k \in DOMAIN map \ {<<>>} :
            /\ (k \in owned) # (k \in OnStack \cup released)
            /\ ~(k \in OnStack /\ k \in released))
    /\ [][\A k \in (released' \ released) \ {<<>>} : k = stack[Len(stack)]]_vars
    /\ <>(phase = "dropped" /\ released = DOMAIN map /\ stack = <<>>)

C19_Witness ==
    /\ phase = "dropped"
    /\ released = DOMAIN map
    /\ \E k \in DOMAIN map : Len(k) = MaxDepth + 1
    /\ \E k \in DOMAIN map : Cardinality(children_of(map, k)) > 1

(***************************************************************************)
(* The static-path set of the component-set revision (lib.rs 148-161)      *)
(***************************************************************************)
StaticPathOps == {"add_static_path", "remove_static_path"}

\* C20: at every step is_static_path(p) becomes true when the call is
\* add_static_path(p), false when it is remove_static_path(p) and stays as it
\* was otherwise, so it tells whether the last call on p was an add;
\* remove_static_path returns whether p was in the set; and a call on the
\* static-path set leaves the trie and the plain routes alone, every scope
\* resolving as before.
C20_StaticPathSetOnly ==
    [][/\ \A p \in StaticCandidates :
            is_static_path(static_paths', p) =
                IF last'.op \in StaticPathOps /\ last'.path = p
                THEN last'.op = "add_static_path"
                ELSE is_static_path(static_paths, p)
       /\ last'.op = "remove_static_path" =>
            last'.result = is_static_path(static_paths, last'.path)
       /\ last'.op \in StaticPathOps =>
            /\ map' = map
            /\ plain_route_set' = plain_route_set
            /\ \A scope \in Scopes :
                  resolve_asgi_app(map', plain_route_set', scope)
                      = resolve_asgi_app(map, plain_route_set, scope)]_vars

\* a static path removed from the set after its catch-all route was installed
C20_Witness ==
    /\ last.op = "remove_static_path"
    /\ last.result
    /\ ~is_static_path(static_paths, last.path)
    /\ \E k \in DOMAIN map :
          /\ map[k].static_path = Some(last.path)
          /\ map[k].asgi_handlers.some
          /\ "asgi" \in DOMAIN map[k].asgi_handlers.value

(***************************************************************************)
(* Where a declaration of the later revision is stored (search.rs 19-47)   *)
(***************************************************************************)
\* the key of the trie node the walk of the last declaration ends at
LastKey == insert_key(last.route.path, param_set(last.route.path_parameters))

\* an accepted declaration that stays out of the trie
PlainDeclared(d) == d.route.path_parameters = <<>> /\ ~d.is_static

\* C21: a declaration goes into the trie exactly when it has a parameter
\* definition or its path is static when it is declared: such a declaration
\* leaves the plain-route table alone and, once accepted, has its group at the
\* node of its path; any other declaration leaves the trie alone and, once
\* accepted, has exactly one entry, under its path, in the plain-route table.
\* A map whose accepted declarations are all of the second kind has an empty
\* root and the declared paths as its plain-route keys.
C21_TrieOrPlainTable ==
    /\ (last.op = "add_route" /\ TrieDeclaration)
       => /\ plain_routes = last.before.plain_routes
          /\ last.result = "ok"
             => /\ LastKey \in DOMAIN root
                /\ root[LastKey].handler_group # NoGroup
    /\ (last.op = "add_route" /\ ~TrieDeclaration)
       => /\ root = last.before.root
          /\ \A p \in DOMAIN last.before.plain_routes \ {last.route.path} :
                /\ p \in DOMAIN plain_routes
                /\ plain_routes[p] = last.before.plain_routes[p]
          /\ last.result = "ok"
             => /\ DOMAIN plain_routes
                     = DOMAIN last.before.plain_routes \cup {last.route.path}
                /\ plain_routes[last.route.path] # NoGroup
          /\ last.result # "ok" => plain_routes = last.before.plain_routes
    /\ (\A d \in declared : PlainDeclared(d))
       => /\ root = [k \in {<<>>} |-> NodeDefault]
          /\ DOMAIN plain_routes = {d.route.path : d \in declared}

\* three parameter-free routes at two paths, none static: the trie is empty
C21_Witness ==
    /\ last.op = "add_route"
    /\ ~TrieDeclaration
    /\ last.result = "ok"
    /\ Cardinality(DOMAIN plain_routes) = 2
    /\ Cardinality(declared) = 3
    /\ \A d \in declared : PlainDeclared(d)
    /\ root = [k \in {<<>>} |-> NodeDefault]

\* a declaration at a static path: stored in the trie, not in the table
C21_WitnessStatic ==
    /\ last.op = "add_route"
    /\ last.route.path_parameters = <<>>
    /\ last.route.path \in last.before.static_paths
    /\ last.result = "ok"
    /\ last.route.path \notin DOMAIN plain_routes

(***************************************************************************)
(* Where the component-set revision stores handlers (lib.rs 344-392)       *)
(***************************************************************************)
\* the segment is one of the parameters of the declaration in braces
IsParameterSegment(s, path_parameters) ==
    \E i \in 1..Len(path_parameters) : s = <<"{">> \o path_parameters[i].full \o <<"}">>

\* the terminal node of an accepted declaration: the root child keyed by the
\* full path, or the chain "/", literal segments, "*" for each placeholder
Terminal(d) ==
    LET comps == get_base_components(d.route.path)
    IN  IF d.route.path_parameters = <<>> /\ ~d.is_static
        THEN <<d.route.path>>
        ELSE [i \in 1..Len(comps) |->
                 IF IsParameterSegment(comps[i], d.route.path_parameters)
                 THEN <<"*">> ELSE comps[i]]

GetBaseComponents(path) ==
    /\ last' = [op |-> "get_base_components", path |-> path,
                result |-> get_base_components(path)]
    /\ UNCHANGED <<root, plain_routes, static_paths, adds, declared, map,
                   plain_route_set, phase, calls, stack, owned, released>>

ComponentsNext == \E path \in PathStrings : GetBaseComponents(path)

SpecComponents == NormalizeInit /\ [][ComponentsNext]_vars

\* the positions where a segment of path starts, and where that segment ends
SegmentStarts(path) ==
    {i \in 1..Len(path) : path[i] # "/" /\ (i = 1 \/ path[i - 1] = "/")}

SegmentEnd(path, i) ==
    CHOOSE j \in i..Len(path) :
        /\ \A l \in i..j : path[l] # "/"
        /\ (j = Len(path) \/ path[j + 1] = "/")

\* the k-th segment start from the left
NthStart(path, k) ==
    CHOOSE i \in SegmentStarts(path) :
        Cardinality({j \in SegmentStarts(path) : j < i}) = k - 1

\* path with one more separator at its start, at its end, or next to a separator
WithExtraSeparator(path) ==
    {SubSeq(path, 1, i) \o <<"/">> \o SubSeq(path, i + 1, Len(path)) :
        i \in {i \in 0..Len(path) :
                  \/ i = 0
                  \/ i = Len(path)
                  \/ path[i] = "/"
                  \/ path[i + 1] = "/"}}

\* C23: get_base_components(path) is "/" followed by the segments of path, the
\* maximal runs of characters other than the separator, from left to right; no
\* component is empty; and a path with one more separator at its start, at its
\* end or next to another separator gives the same list.
C23_ComponentsAreSegments ==
    last.op = "get_base_components" =>
        LET path == last.path
            result == last.result
        IN  /\ Len(result) = 1 + Cardinality(SegmentStarts(path))
            /\ result[1] = <<"/">>
            /\ \A k \in 2..Len(result) :
                  /\ result[k] # <<>>
                  /\ result[k] = SubSeq(path, NthStart(path, k - 1),
                                        SegmentEnd(path, NthStart(path, k - 1)))
            /\ \A other \in WithExtraSeparator(path) :
                  get_base_components(other) = result

\* two segments with a repeated separator between them
C23_Witness ==
    /\ last.op = "get_base_components"
    /\ last.path = <<"a", "/", "/", " ">>
    /\ last.result = <<<<"/">>, <<"a">>, <<" ">>>>

\* a repeated leading separator and a trailing one
C23_WitnessLeadingTrailing ==
    /\ last.op = "get_base_components"
    /\ last.path = <<"/", "/", "a", "/">>
    /\ last.result = <<<<"/">>, <<"a">>>>

(***************************************************************************)
(* When a lookup of the later revision fails (search.rs 57-86)             *)
(***************************************************************************)
\* the node an iteration of the walk moves to
StepTarget(e) ==
    IF e.took = "literal" THEN child(e.node, e.component)
    ELSE IF e.took = "placeholder" THEN placeholder_child(e.node)
    ELSE e.node

\* trace is a descent from the root along the request components comps: each
\* iteration starts where the one before it moved to, only the last iteration
\* may stay where it is, and the branch taken is the first one open at the node
Descent(trace, comps) ==
    /\ trace # <<>>
    /\ Len(trace) <= Len(comps)
    /\ trace[1].node = <<>>
    /\ \A i \in 1..Len(trace) :
          LET e == trace[i]
          IN  /\ e.component = comps[i]
              /\ e.node \in DOMAIN root
              /\ i < Len(trace) => /\ e.took \in {"literal", "placeholder"}
                                   /\ trace[i + 1].node = StepTarget(e)
              /\ e.took = "literal" <=> has_child(root, e.node, e.component)
              /\ e.took = "placeholder" <=>
                    (~has_child(root, e.node, e.component)
                        /\ has_placeholder_child(root, e.node))

\* (a) the last segment looked at has no literal child to go to, the node has
\* no placeholder child and carries no Static group
DeadEnd(trace) ==
    LET e == trace[Len(trace)]
    IN  /\ ~has_child(root, e.node, e.component)
        /\ ~has_placeholder_child(root, e.node)
        /\ root[e.node].handler_group.tag # "Static"

\* (b) every segment was consumed and the node reached carries no group
EndsWithoutGroup(trace, comps) ==
    /\ Len(trace) = Len(comps)
    /\ trace[Len(trace)].took \in {"literal", "placeholder"}
    /\ root[StepTarget(trace[Len(trace)])].handler_group = NoGroup

\* C24: a lookup whose path is not a plain route walks the trie, and it fails,
\* returning no group, exactly when (a) a segment finds no literal child, no
\* placeholder child and no Static group at the node the walk is at, or (b) all
\* segments are consumed and the node reached carries no group; a path that is
\* a plain route is found without a walk.
C24_NotFoundCases ==
    last.op = "find" =>
        LET res == last.result
            path == normalize_path(last.full_path)
            comps == get_base_components(path)
        IN  IF path \in DOMAIN plain_routes
            THEN res.found /\ res.handler_group = plain_routes[path]
            ELSE /\ Descent(res.trace, comps)
                 /\ ~res.found <=> (DeadEnd(res.trace) \/ EndsWithoutGroup(res.trace, comps))
                 /\ ~res.found => res.handler_group = NoGroup
                 /\ res.found => res.handler_group # NoGroup

\* (b): the request is a strict prefix of a declared parameterized route
C24_Witness ==
    /\ last.op = "find"
    /\ ~last.result.found
    /\ EndsWithoutGroup(last.result.trace, RequestComponents(last.full_path))
    /\ \E d \in declared :
          /\ d.route.path_parameters # <<>>
          /\ StrictlyExtends(d.route.path, normalize_path(last.full_path))

\* (a): a dead end below the first segment, in a trie that has a Static group
C24_WitnessDeadEnd ==
    /\ last.op = "find"
    /\ ~last.result.found
    /\ Len(last.result.trace) > 1
    /\ DeadEnd(last.result.trace)
    /\ \E k \in DOMAIN root : root[k].handler_group.tag = "Static"

(***************************************************************************)
(* The walk of the component-set revision after a static match             *)
(* (lib.rs 405-424), with a parameterized route declared below the static  *)
(* path.                                                                   *)
(***************************************************************************)
StaticWalkRoutes == {
    ASGIRoute(<<"/", "s">>, <<>>, "a4"),
    HttpRoute(<<"/", "s", "/", "a", "/", "{", "id", "}">>, <<ID>>, [m \in {"GET"} |-> "s9"]),
    HttpRoute(<<"/", "a", "/", "{", "id", "}">>, <<ID>>, [m \in {"GET", "POST"} |-> "h7"])
}

StaticWalkScopes ==
    {Scope(path, "http", "GET") :
        path \in {<<"/", "s">>, <<"/", "s", "/", "x">>, <<"/", "s", "/", "x", "/", "a">>,
                  <<"/", "s", "/", "x", "/", "a", "/", "y">>,
                  <<"/", "s", "/", "a", "/", "y">>, <<"/", "a", "/", "y">>}}

LegacyStaticWalkNext ==
    \/ \E path \in StaticCandidates : AddStaticPath(path)
    \/ \E path \in StaticCandidates : RemoveStaticPath(path)
    \/ \E route \in StaticWalkRoutes : AddRoutes(<<route>>)
    \/ \E scope \in StaticWalkScopes : ResolveAsgiApp(scope)

SpecLegacyStaticWalk == LegacyInit /\ [][LegacyStaticWalkNext]_vars

\* the first static match on the way down: the node N where a component has
\* no child of its name and no "*" child and N carries a static path, with the
\* values collected on the way to N; hit is FALSE when there is none
RECURSIVE FirstStaticMatch(_, _, _, _, _)
FirstStaticMatch(m, components, i, node, values) ==
    IF i > Len(components) THEN [hit |-> FALSE, node |-> node, values |-> values]
    ELSE IF components[i] \in m[node].components
    THEN FirstStaticMatch(m, components, i + 1, Append(node, components[i]), values)
    ELSE IF <<"*">> \in m[node].components
    THEN FirstStaticMatch(m, components, i + 1, Append(node, <<"*">>),
                          Append(values, components[i]))
    ELSE [hit |-> m[node].static_path.some, node |-> node, values |-> values]

\* C25: once the walk has a static match at node N the lookup ends at N: it
\* returns what N holds, with the parameter values collected on the way to N
\* and the path rewritten for N alone, whatever segments remain.
C25_StaticMatchEndsWalk ==
    (last.op = "resolve_asgi_app" /\ last.scope.path \notin plain_route_set) =>
        LET first == FirstStaticMatch(map,
                         get_base_components(scope_path_trimmed(last.scope.path)),
                         1, <<>>, <<>>)
            at == first.node
        IN  first.hit =>
              /\ last.result.node = at
              /\ last.result.outcome # "not_found"
              /\ last.result.scope.path_params.value.values = first.values
              /\ last.result.scope.path =
                    IF map[at].static_path.value # <<"/">>
                    THEN replace(last.scope.path, map[at].static_path.value, <<>>)
                    ELSE last.scope.path

(***************************************************************************)
(* Templates of the component-set revision whose literal segments hold a   *)
(* parameter token, a "*" or a "{}" (lib.rs 354-374)                       *)
(***************************************************************************)
TemplateRoutes == {
    HttpRoute(<<"/", "x", "id", "/", "{", "id", "}">>, <<ID>>, [m \in {"GET"} |-> "t1"]),
    HttpRoute(<<"/", "*", "/", "{", "id", "}">>, <<ID>>, [m \in {"GET"} |-> "t2"]),
    HttpRoute(<<"/", "{", "}", "/", "{", "id", "}">>, <<ID>>, [m \in {"GET"} |-> "t3"]),
    HttpRoute(<<"/", "a", "/", "{", "id", "}">>, <<ID>>, [m \in {"GET"} |-> "t4"])
}

TemplateScopes ==
    {Scope(path, "http", "GET") :
        path \in {<<"/", "x", "id", "/", "v">>, <<"/", "x", "/", "v">>,
                  <<"/", "*", "/", "v">>, <<"/", "{", "}", "/", "v">>,
                  <<"/", "y", "/", "v">>, <<"/", "a", "/", "v">>,
                  <<"/", "a", "/", "*">>}}

LegacyTemplatesNext ==
    \/ \E route \in TemplateRoutes : AddRoutes(<<route>>)
    \/ \E scope \in TemplateScopes : ResolveAsgiApp(scope)

SpecLegacyTemplates == LegacyInit /\ [][LegacyTemplatesNext]_vars

\* the request components fit the template of d: as many of them, and each
\* equal to the template segment unless that segment is a placeholder
FitsTemplate(components, d) ==
    LET template == get_base_components(d.route.path)
    IN  /\ Len(components) = Len(template)
        /\ \A i \in 1..Len(template) :
              \/ IsParameterSegment(template[i], d.route.path_parameters)
              \/ template[i] = components[i]

\* C26: a template segment is a placeholder exactly when it is a parameter
\* token of the declaration in braces: the handlers of an accepted
\* parameterized declaration are at the end of the chain that has "*" for
\* those segments and the exact text for every other segment, and a lookup
\* returns a handler only for a request whose segments equal the literal
\* segments of an accepted declaration.
C26_PlaceholderExactly ==
    /\ \A d \in declared :
          d.route.path_parameters # <<>> =>
              /\ Terminal(d) \in DOMAIN map
              /\ map[Terminal(d)].asgi_handlers.some
    /\ (last.op = "resolve_asgi_app" /\ last.result.outcome = "handler") =>
          \E d \in declared :
              FitsTemplate(get_base_components(scope_path_trimmed(last.scope.path)), d)

(***************************************************************************)
(* Shape of the trie of the later revision (search.rs 19-41)               *)
(***************************************************************************)
\* test/mod.rs 11-13, with the children read off the keys of the trie
node_empty(rt, k) ==
    /\ ~\E j \in DOMAIN rt : Len(j) = Len(k) + 1 /\ SubSeq(j, 1, Len(k)) = k
    /\ rt[k].handler_group = NoGroup

\* C27: after any insertions, accepted or rejected by merge, no node of the
\* trie other than the root is empty: each has a literal child, a placeholder
\* child or a group.
C27_NoEmptyNode == \A k \in DOMAIN root \ {<<>>} : ~node_empty(root, k)

\* a declaration rejected by merge at a node below the node "/", which has
\* no group of its own
C27_Witness ==
    /\ TrieDeclaration
    /\ last.route.path \notin last.before.static_paths
    /\ last.result = "conflict"
    /\ ExistingGroup # NoGroup
    /\ Len(LastKey) = 2
    /\ \E k \in DOMAIN root \ {<<>>} : root[k].handler_group = NoGroup

(***************************************************************************)
(* The lookup of the later revision does not backtrack (search.rs 60-86)   *)
(***************************************************************************)
\* some descent from node along the components from i on reaches a group when
\* it may choose between the literal and the placeholder child at every node
\* and may stop at any Static group on its way
RECURSIVE SomeDescentMatches(_, _, _, _)
SomeDescentMatches(rt, comps, i, node) ==
    IF i > Len(comps) THEN rt[node].handler_group # NoGroup
    ELSE \/ /\ has_child(rt, node, comps[i])
            /\ SomeDescentMatches(rt, comps, i + 1, child(node, comps[i]))
         \/ /\ has_placeholder_child(rt, node)
            /\ SomeDescentMatches(rt, comps, i + 1, placeholder_child(node))
         \/ rt[node].handler_group.tag = "Static"

\* the walk took a literal child at a node that also has a placeholder child
LiteralOverPlaceholder(trace) ==
    \E i \in 1..Len(trace) :
        trace[i].took = "literal" /\ has_placeholder_child(root, trace[i].node)

\* the walk went through a node that carries a Static group
StaticAncestor(trace) ==
    \E i \in 1..(Len(trace) - 1) : root[trace[i + 1].node].handler_group.tag = "Static"

\* C28: a lookup that misses the plain routes makes one descent from the root:
\* at each node it takes the literal child when there is one and the
\* placeholder child only when there is none, it never stops at a Static group
\* before its last iteration, the group it returns is the group of the node the
\* descent ends at, and when the descent dead-ends or ends at a node without a
\* group the lookup fails, whatever another descent would have matched.
C28_SingleDescent ==
    (last.op = "find" /\ normalize_path(last.full_path) \notin DOMAIN plain_routes) =>
        LET res == last.result
            comps == RequestComponents(last.full_path)
            stop == res.trace[Len(res.trace)]
        IN  /\ Descent(res.trace, comps)
            /\ \A i \in 1..(Len(res.trace) - 1) : res.trace[i].took # "static"
            /\ res.found => res.handler_group = root[StepTarget(stop)].handler_group
            /\ (DeadEnd(res.trace) \/ EndsWithoutGroup(res.trace, comps)) => ~res.found

\* the literal branch ends without a group while the placeholder branch of the
\* same node leads to one
C28_Witness ==
    /\ last.op = "find"
    /\ ~last.result.found
    /\ last.result.trace # <<>>
    /\ LiteralOverPlaceholder(last.result.trace)
    /\ \A k \in DOMAIN root : root[k].handler_group.tag # "Static"
    /\ SomeDescentMatches(root, RequestComponents(last.full_path), 1, <<>>)

\* the descent dead-ends below a node that carries a Static group
C28_WitnessStaticAncestor ==
    /\ last.op = "find"
    /\ ~last.result.found
    /\ last.result.trace # <<>>
    /\ DeadEnd(last.result.trace)
    /\ StaticAncestor(last.result.trace)

(***************************************************************************)
(* Parameter values and parameter definitions (lib.rs 405-415, 465-472)    *)
(***************************************************************************)
\* the characters of s
Chars(s) == {s[i] : i \in 1..Len(s)}

\* every parameter of the route is a whole placeholder segment of its template
\* exactly once, and the other segments hold no token, brace or star
WellFormedTemplate(route) ==
    LET template == get_base_components(route.path)
        tokens == {route.path_parameters[i].full : i \in 1..Len(route.path_parameters)}
        braced(t) == <<"{">> \o t \o <<"}">>
    IN  /\ Cardinality(tokens) = Len(route.path_parameters)
        /\ \A t \in tokens :
              Cardinality({i \in 1..Len(template) : template[i] = braced(t)}) = 1
        /\ \A i \in 2..Len(template) :
              \/ \E t \in tokens : template[i] = braced(t)
              \/ Chars(template[i]) \cap ({"*", "{", "}"} \cup UNION {Chars(t) : t \in tokens}) = {}

\* C29: when every accepted declaration has a well-formed template, a lookup
\* that returns a handler has set as many parameter values as the node it ends
\* at has parameter definitions, whatever the request path is.
C29_ValuesMatchDefinitions ==
    ((\A d \in declared : WellFormedTemplate(d.route))
        /\ last.op = "resolve_asgi_app" /\ last.result.outcome = "handler")
    => LET path_params == last.result.scope.path_params.value
       IN  Len(path_params.values) = Len(path_params.definitions)

(***************************************************************************)
(* One path, two places (lib.rs 354-382)                                   *)
(***************************************************************************)
\* C30: no path has handlers both at its plain-route node and at its own node
\* in the trie: all declarations for one path are configured on one node.
C30_OnePlacePerPath ==
    \A path \in plain_route_set :
        ~(/\ <<path>> \in DOMAIN map
          /\ map[<<path>>].asgi_handlers.some
          /\ get_base_components(path) # <<path>>
          /\ get_base_components(path) \in DOMAIN map
          /\ map[get_base_components(path)].asgi_handlers.some)
====
